------------------------------ MODULE Spec2Model ------------------------------
(* A model of the Adeona chatbot's conversational core: the per-message       *)
(* dispatch of EnhancedAdeonaChatbot.process_message, the rule cascade of the *)
(* router, the booking and cancellation flows against the Airtable record     *)
(* store, and the local-search / web-fallback decision of the vector service. *)
(*                                                                            *)
(* Text is a sequence of one-character strings, so that strip, lower, upper,  *)
(* substring tests and the regular expressions of the source are computed on  *)
(* the characters of a message.  Times are whole seconds.  Scores are whole   *)
(* hundredths (0.85 is 85).                                                   *)
EXTENDS Integers, Sequences, FiniteSets, TLC

VARIABLES
    sessions,          \* chatbot.sessions: session id -> SessionData
    records,           \* the Airtable table: a sequence of customer records
    tasks,             \* process_message coroutines suspended in asyncio.sleep
    now,               \* the wall clock (datetime.now), in seconds
    nmsgs,             \* number of messages received so far
    sleeps,            \* number of times a coroutine went to sleep so far
    last,              \* the dispatch of the most recently received message
    routing,           \* one run of _route_message_enhanced on a fresh session
    search             \* one run of vectordb_service.search_with_fallback

vars == << sessions, records, tasks, now, nmsgs, sleeps, last, routing, search >>

-------------------------------------------------------------------------------
(* Characters and the str methods the source uses.                            *)

LowerAlpha ==
    << "a","b","c","d","e","f","g","h","i","j","k","l","m","n","o","p","q","r","s","t","u","v","w","x","y","z" >>

UpperAlpha ==
    << "A","B","C","D","E","F","G","H","I","J","K","L","M","N","O","P","Q","R","S","T","U","V","W","X","Y","Z" >>

DigitChars == {"0","1","2","3","4","5","6","7","8","9"}

LowerChars == {LowerAlpha[i] : i \in 1..26}

UpperChars == {UpperAlpha[i] : i \in 1..26}

ToLowerMap == [c \in UpperChars |-> LowerAlpha[CHOOSE i \in 1..26 : UpperAlpha[i] = c]]

ToUpperMap == [c \in LowerChars |-> UpperAlpha[CHOOSE i \in 1..26 : LowerAlpha[i] = c]]

IsDigit(c) == c \in DigitChars

\* one character outside ASCII: a letter without case (KATAKANA LETTER KI), for
\* which str.isalnum is true and which str.upper and str.lower leave as it is
CaselessLetter == "U+30AD"

\* the characters for which str.isalnum is true
AlnumChars == LowerChars \cup UpperChars \cup DigitChars \cup { CaselessLetter }

\* str.isalnum of one character
IsAlnum(c) == c \in AlnumChars

IsSpace(c) == c = " "

\* \w of the re module on the characters used here
IsWordChar(c) == IsAlnum(c) \/ c = "_"

\* str.lower
Lower(s) == [i \in 1..Len(s) |-> IF s[i] \in UpperChars THEN ToLowerMap[s[i]] ELSE s[i]]

\* str.upper
Upper(s) == [i \in 1..Len(s) |-> IF s[i] \in LowerChars THEN ToUpperMap[s[i]] ELSE s[i]]

SetMin(S) == CHOOSE x \in S : \A y \in S : x <= y

SetMax(S) == CHOOSE x \in S : \A y \in S : x >= y

\* str.strip
Strip(s) ==
    LET idx == {i \in 1..Len(s) : ~IsSpace(s[i])}
    IN  IF idx = {} THEN << >> ELSE SubSeq(s, SetMin(idx), SetMax(idx))

\* p occurs in s starting at index i
MatchAt(s, i, p) ==
    /\ i >= 1
    /\ i + Len(p) - 1 <= Len(s)
    /\ \A k \in 1..Len(p) : s[i + k - 1] = p[k]

\* the `in` operator on strings
Contains(s, p) == \E i \in 1..(Len(s) - Len(p) + 1) : MatchAt(s, i, p)

\* any(indicator in message for indicator in indicators)
ContainsAny(s, ps) == \E k \in 1..Len(ps) : Contains(s, ps[k])

\* len(message.split())
WordCount(s) ==
    Cardinality({i \in 1..Len(s) : ~IsSpace(s[i]) /\ (i = 1 \/ IsSpace(s[i - 1]))})

\* str.isalnum
IsAlnumStr(s) == Len(s) >= 1 /\ \A i \in 1..Len(s) : IsAlnum(s[i])

\* ''.join(filter(str.isdigit, s)), of which the source only takes the length
DigitCount(s) == Cardinality({i \in 1..Len(s) : IsDigit(s[i])})

\* \bp\b at index i, for a phrase p that starts and ends with a word character
PhraseAt(s, i, p) ==
    /\ MatchAt(s, i, p)
    /\ (i = 1 \/ ~IsWordChar(s[i - 1]))
    /\ (i + Len(p) - 1 = Len(s) \/ ~IsWordChar(s[i + Len(p)]))

\* re.search(r'\b(p1|p2|...)\b', s)
HasPhrase(s, ps) == \E k \in 1..Len(ps) : \E i \in 1..Len(s) : PhraseAt(s, i, ps[k])

\* re.search(r'\b(a1|a2|...)\b.*\b(b1|b2|...)\b', s)
HasPhraseThen(s, as, bs) ==
    \E k \in 1..Len(as) : \E i \in 1..Len(s) :
        /\ PhraseAt(s, i, as[k])
        /\ \E m \in 1..Len(bs) : \E j \in (i + Len(as[k]))..Len(s) : PhraseAt(s, j, bs[m])

\* the length of an identifier token
USER_ID_LENGTH == 8

\* \b[A-Z0-9]{8}\b at index i of an upper-cased text
IdTokenAt(s, i) ==
    /\ i >= 1
    /\ i + USER_ID_LENGTH - 1 <= Len(s)
    /\ \A k \in 0..(USER_ID_LENGTH - 1) : s[i + k] \in UpperChars \/ IsDigit(s[i + k])
    /\ (i = 1 \/ ~IsWordChar(s[i - 1]))
    /\ (i + USER_ID_LENGTH - 1 = Len(s) \/ ~IsWordChar(s[i + USER_ID_LENGTH]))

\* str.replace(old, new), leftmost non-overlapping occurrences, from index i
RECURSIVE ReplaceFrom(_, _, _, _)
ReplaceFrom(s, i, old, new) ==
    IF i > Len(s) THEN << >>
    ELSE IF MatchAt(s, i, old) THEN new \o ReplaceFrom(s, i + Len(old), old, new)
    ELSE << s[i] >> \o ReplaceFrom(s, i + 1, old, new)

Replace(s, old, new) == ReplaceFrom(s, 1, old, new)

-------------------------------------------------------------------------------
(* The lexical tables of the router (chatbot.py).                             *)

cancel_verbs ==
    << <<"c","a","n","c","e","l">>,
       <<"s","t","o","p">>,
       <<"r","e","m","o","v","e">>,
       <<"d","e","l","e","t","e">> >>

cancel_nouns ==
    << <<"s","e","r","v","i","c","e">>,
       <<"o","r","d","e","r">>,
       <<"b","o","o","k","i","n","g">>,
       <<"s","u","b","s","c","r","i","p","t","i","o","n">>,
       <<"r","e","q","u","e","s","t">> >>

cancel_my_phrases ==
    << <<"c","a","n","c","e","l"," ","m","y">>,
       <<"s","t","o","p"," ","m","y">>,
       <<"r","e","m","o","v","e"," ","m","y">>,
       <<"d","e","l","e","t","e"," ","m","y">> >>

cancel_how_phrases ==
    << <<"h","o","w"," ","t","o"," ","c","a","n","c","e","l">>,
       <<"w","a","n","t"," ","t","o"," ","c","a","n","c","e","l">>,
       <<"n","e","e","d"," ","t","o"," ","c","a","n","c","e","l">>,
       <<"i"," ","w","a","n","t"," ","t","o"," ","c","a","n","c","e","l">>,
       <<"i"," ","n","e","e","d"," ","t","o"," ","c","a","n","c","e","l">> >>

cancel_the_phrases ==
    << <<"c","a","n","c","e","l"," ","t","h","e">>,
       <<"s","t","o","p"," ","t","h","e">>,
       <<"r","e","m","o","v","e"," ","t","h","e">> >>

cancel_the_nouns ==
    << <<"s","e","r","v","i","c","e">>,
       <<"o","r","d","e","r">>,
       <<"b","o","o","k","i","n","g">> >>

cancel_objects ==
    << <<"m","y"," ","s","e","r","v","i","c","e">>,
       <<"m","y"," ","o","r","d","e","r">>,
       <<"m","y"," ","b","o","o","k","i","n","g">>,
       <<"t","h","e"," ","s","e","r","v","i","c","e">>,
       <<"t","h","e"," ","o","r","d","e","r">> >>

cancel_specific_phrases ==
    << <<"i"," ","w","a","n","t"," ","t","o"," ","c","a","n","c","e","l">>,
       <<"i"," ","n","e","e","d"," ","t","o"," ","c","a","n","c","e","l">>,
       <<"p","l","e","a","s","e"," ","c","a","n","c","e","l">>,
       <<"c","a","n","c","e","l"," ","i","t">>,
       <<"c","a","n","c","e","l"," ","t","h","a","t">> >>

social_indicators ==
    << <<"f","a","c","e","b","o","o","k">>,
       <<"f","b">>,
       <<"f","a","c","e","b","o","o","k"," ","p","r","o","f","i","l","e">>,
       <<"f","a","c","e","b","o","o","k"," ","p","a","g","e">>,
       <<"f","a","c","e","b","o","o","k"," ","a","c","c","o","u","n","t">>,
       <<"t","w","i","t","t","e","r">>,
       <<"x"," ","p","r","o","f","i","l","e">>,
       <<"t","w","i","t","t","e","r"," ","p","r","o","f","i","l","e">>,
       <<"t","w","i","t","t","e","r"," ","a","c","c","o","u","n","t">>,
       <<"x"," ","a","c","c","o","u","n","t">>,
       <<"l","i","n","k","e","d","i","n">>,
       <<"l","i","n","k","e","d","i","n"," ","p","r","o","f","i","l","e">>,
       <<"l","i","n","k","e","d","i","n"," ","p","a","g","e">>,
       <<"l","i","n","k","e","d","i","n"," ","a","c","c","o","u","n","t">>,
       <<"i","n","s","t","a","g","r","a","m">>,
       <<"i","n","s","t","a">>,
       <<"i","n","s","t","a","g","r","a","m"," ","p","r","o","f","i","l","e">>,
       <<"i","n","s","t","a","g","r","a","m"," ","a","c","c","o","u","n","t">>,
       <<"s","o","c","i","a","l"," ","m","e","d","i","a">>,
       <<"s","o","c","i","a","l"," ","p","r","o","f","i","l","e","s">>,
       <<"s","o","c","i","a","l"," ","a","c","c","o","u","n","t","s">> >>

contact_indicators ==
    << <<"p","h","o","n","e"," ","n","u","m","b","e","r">>,
       <<"c","o","n","t","a","c","t"," ","n","u","m","b","e","r">>,
       <<"t","e","l","e","p","h","o","n","e">>,
       <<"c","a","l","l">>,
       <<"e","m","a","i","l"," ","a","d","d","r","e","s","s">>,
       <<"e","m","a","i","l">>,
       <<"c","o","n","t","a","c","t"," ","e","m","a","i","l">>,
       <<"c","o","n","t","a","c","t"," ","i","n","f","o">>,
       <<"c","o","n","t","a","c","t"," ","d","e","t","a","i","l","s">>,
       <<"h","o","w"," ","t","o"," ","c","o","n","t","a","c","t">>,
       <<"r","e","a","c","h"," ","y","o","u">>,
       <<"g","e","t"," ","i","n"," ","t","o","u","c","h">>,
       <<"a","d","d","r","e","s","s">>,
       <<"l","o","c","a","t","i","o","n">> >>

service_indicators ==
    << <<"w","h","a","t"," ","s","e","r","v","i","c","e","s">>,
       <<"w","h","a","t"," ","d","o"," ","y","o","u"," ","o","f","f","e","r">>,
       <<"w","h","a","t"," ","c","a","n"," ","y","o","u"," ","d","o">>,
       <<"s","e","r","v","i","c","e","s"," ","d","o"," ","y","o","u"," ","p","r","o","v","i","d","e">>,
       <<"w","h","a","t"," ","a","r","e"," ","y","o","u","r"," ","s","e","r","v","i","c","e","s">>,
       <<"l","i","s","t"," ","o","f"," ","s","e","r","v","i","c","e","s">>,
       <<"a","v","a","i","l","a","b","l","e"," ","s","e","r","v","i","c","e","s">>,
       <<"s","e","r","v","i","c","e","s"," ","o","f","f","e","r","e","d">>,
       <<"w","h","a","t"," ","s","o","l","u","t","i","o","n","s">>,
       <<"w","h","a","t"," ","k","i","n","d"," ","o","f"," ","s","e","r","v","i","c","e","s">>,
       <<"s","e","r","v","i","c","e"," ","l","i","s","t">> >>

basic_indicators ==
    << <<"w","h","o"," ","a","r","e"," ","y","o","u">>,
       <<"w","h","a","t"," ","i","s"," ","y","o","u","r"," ","n","a","m","e">>,
       <<"y","o","u","r"," ","n","a","m","e">>,
       <<"b","o","t"," ","n","a","m","e">>,
       <<"p","h","o","n","e"," ","n","u","m","b","e","r">>,
       <<"c","o","n","t","a","c","t"," ","n","u","m","b","e","r">>,
       <<"e","m","a","i","l"," ","a","d","d","r","e","s","s">>,
       <<"c","o","n","t","a","c","t"," ","e","m","a","i","l">>,
       <<"a","d","d","r","e","s","s">>,
       <<"l","o","c","a","t","i","o","n">>,
       <<"w","h","e","r","e"," ","a","r","e"," ","y","o","u">>,
       <<"o","f","f","i","c","e"," ","a","d","d","r","e","s","s">>,
       <<"w","h","e","n"," ","f","o","u","n","d","e","d">>,
       <<"f","o","u","n","d","e","d">>,
       <<"e","s","t","a","b","l","i","s","h","e","d"," ","w","h","e","n">> >>

greetings ==
    << <<"h","e","l","l","o">>,
       <<"h","i">>,
       <<"h","e","y">>,
       <<"g","o","o","d"," ","m","o","r","n","i","n","g">>,
       <<"g","o","o","d"," ","a","f","t","e","r","n","o","o","n">>,
       <<"g","o","o","d"," ","e","v","e","n","i","n","g">> >>

booking_indicators ==
    << <<"b","o","o","k">>,
       <<"o","r","d","e","r">>,
       <<"p","u","r","c","h","a","s","e">>,
       <<"b","u","y">>,
       <<"g","e","t"," ","s","e","r","v","i","c","e">>,
       <<"n","e","e","d"," ","s","e","r","v","i","c","e">>,
       <<"w","a","n","t"," ","s","e","r","v","i","c","e">>,
       <<"h","i","r","e">>,
       <<"r","e","q","u","e","s","t"," ","s","e","r","v","i","c","e">>,
       <<"i"," ","w","a","n","t"," ","t","o">>,
       <<"i"," ","n","e","e","d"," ","t","o">> >>

replacement_old ==
    << <<"t","h","i","s"," ","c","o","m","p","a","n","y">>,
       <<"t","h","e"," ","c","o","m","p","a","n","y">>,
       <<"y","o","u","r"," ","c","o","m","p","a","n","y">>,
       <<"y","o","u"," ","g","u","y","s">>,
       <<"y","o","u","r"," ","s","e","r","v","i","c","e","s">>,
       <<"y","o","u","r"," ","s","o","l","u","t","i","o","n","s">> >>

replacement_new ==
    << <<"A","d","e","o","n","a"," ","T","e","c","h","n","o","l","o","g","i","e","s">>,
       <<"A","d","e","o","n","a"," ","T","e","c","h","n","o","l","o","g","i","e","s">>,
       <<"A","d","e","o","n","a"," ","T","e","c","h","n","o","l","o","g","i","e","s">>,
       <<"A","d","e","o","n","a"," ","T","e","c","h","n","o","l","o","g","i","e","s">>,
       <<"A","d","e","o","n","a"," ","T","e","c","h","n","o","l","o","g","i","e","s"," ","s","e","r","v","i","c","e","s">>,
       <<"A","d","e","o","n","a"," ","T","e","c","h","n","o","l","o","g","i","e","s"," ","s","o","l","u","t","i","o","n","s">> >>

confirm_commands ==
    << <<"c","o","n","f","i","r","m">>,
       <<"y","e","s">>,
       <<"c","o","n","f","i","r","m","e","d">> >>

edit_commands ==
    << <<"e","d","i","t">>,
       <<"n","o">>,
       <<"c","h","a","n","g","e">> >>

kw_cancel == <<"c","a","n","c","e","l">>

-------------------------------------------------------------------------------
(* The predicates of the router.  Each takes message.lower().strip().         *)

\* _is_cancellation_request: twelve patterns, searched with re.IGNORECASE,
\* then the short-message test
_is_cancellation_request(m) ==
    \/ HasPhraseThen(m, cancel_verbs, cancel_nouns)
    \/ HasPhrase(m, cancel_my_phrases)
    \/ HasPhrase(m, cancel_how_phrases)
    \/ HasPhraseThen(m, cancel_the_phrases, cancel_the_nouns)
    \/ HasPhraseThen(m, << kw_cancel >>, cancel_objects)
    \/ \E i \in 1..Len(m) : \E j \in (i + USER_ID_LENGTH)..Len(m) :
          IdTokenAt(Upper(m), i) /\ PhraseAt(m, j, kw_cancel)
    \/ \E i \in 1..Len(m) : \E j \in (i + Len(kw_cancel))..Len(m) :
          PhraseAt(m, i, kw_cancel) /\ IdTokenAt(Upper(m), j)
    \/ HasPhrase(m, cancel_specific_phrases)
    \/ (Contains(m, kw_cancel) /\ WordCount(m) <= 5)

_is_social_media_request(m) == ContainsAny(m, social_indicators)

_is_contact_request(m) == ContainsAny(m, contact_indicators)

_is_service_inquiry(m) == ContainsAny(m, service_indicators)

_is_basic_info_question(m) == ContainsAny(m, basic_indicators)

_is_simple_greeting(m) == ContainsAny(m, greetings) /\ WordCount(m) <= 3

\* any(indicator in message_lower for indicator in booking_indicators)
HasBookingIndicator(m) == ContainsAny(m, booking_indicators)

_is_service_booking_request(m) ==
    IF _is_cancellation_request(Lower(m)) THEN FALSE
    ELSE IF _is_social_media_request(Lower(m)) THEN FALSE
    ELSE HasBookingIndicator(Lower(m))

\* _process_context_aware_query: the six replacements, in dictionary order
RECURSIVE ApplyReplacements(_, _)
ApplyReplacements(s, k) ==
    IF k > Len(replacement_old) THEN s
    ELSE ApplyReplacements(Replace(s, replacement_old[k], replacement_new[k]), k + 1)

_process_context_aware_query(message) == ApplyReplacements(message, 1)

\* The branch of _route_message_enhanced that handles a message, in the order
\* in which the source tests the predicates.
route_message_branch(message) ==
    LET message_lower == Strip(Lower(message))
    IN  IF _is_basic_info_question(message_lower) THEN "BasicInfo"
        ELSE IF _is_simple_greeting(message_lower) THEN "Greeting"
        ELSE IF _is_cancellation_request(message_lower) THEN "Cancellation"
        ELSE IF _is_social_media_request(message_lower) THEN "SocialMediaRequest"
        ELSE IF _is_contact_request(message_lower) THEN "ContactRequest"
        ELSE IF _is_service_booking_request(message_lower) THEN "ServiceBooking"
        ELSE IF _is_service_inquiry(message_lower) THEN "ServiceInquiry"
        ELSE "CompanyInfo"

-------------------------------------------------------------------------------
(* IdentifierCodec: _extract_user_id.                                         *)

NoId == << >>

\* number of consecutive characters from index i on that satisfy the class
RECURSIVE UpperRun(_, _)
UpperRun(s, i) == IF i <= Len(s) /\ s[i] \in UpperChars THEN 1 + UpperRun(s, i + 1) ELSE 0

RECURSIVE DigitRun(_, _)
DigitRun(s, i) == IF i <= Len(s) /\ IsDigit(s[i]) THEN 1 + DigitRun(s, i + 1) ELSE 0

\* length of the match of [A-Z]{2,4}[0-9]{4,6} that starts at index i, 0 if none:
\* the letters must end where the digits begin, so the letter run is taken whole
ExtendedMatchLen(s, i) ==
    LET r == UpperRun(s, i)
        d == DigitRun(s, i + r)
    IN  IF r >= 2 /\ r <= 4 /\ d >= 4 THEN r + (IF d > 6 THEN 6 ELSE d) ELSE 0

\* re.findall(extended_pattern, s): leftmost, non-overlapping matches from index i
RECURSIVE ExtendedMatches(_, _)
ExtendedMatches(s, i) ==
    IF i > Len(s) THEN << >>
    ELSE LET n == ExtendedMatchLen(s, i)
         IN  IF n > 0 THEN << SubSeq(s, i, i + n - 1) >> \o ExtendedMatches(s, i + n)
             ELSE ExtendedMatches(s, i + 1)

_extract_user_id(message) ==
    LET clean_message == Upper(Strip(message))
        starts == {i \in 1..Len(clean_message) : IdTokenAt(clean_message, i)}
        extended == ExtendedMatches(clean_message, 1)
        eight == {k \in 1..Len(extended) : Len(extended[k]) = USER_ID_LENGTH}
    IN  IF Len(clean_message) = USER_ID_LENGTH /\ IsAlnumStr(clean_message)
            THEN clean_message
        ELSE IF starts # {}
            THEN SubSeq(clean_message, SetMin(starts), SetMin(starts) + USER_ID_LENGTH - 1)
        ELSE IF eight # {} THEN extended[SetMin(eight)]
        ELSE NoId

-------------------------------------------------------------------------------
(* BookingStateMachine: the validators of the five field steps.               *)

MIN_NAME_LENGTH == 2

MIN_PHONE_DIGITS == 10

MIN_ADDRESS_LENGTH == 5

MIN_DETAILS_LENGTH == 10

\* email.split("@")[-1]
AfterLastAt(s) ==
    LET ats == {i \in 1..Len(s) : s[i] = "@"}
    IN  IF ats = {} THEN s ELSE SubSeq(s, SetMax(ats) + 1, Len(s))

ValidName(v) == Len(v) >= MIN_NAME_LENGTH

ValidEmail(v) == Contains(v, << "@" >>) /\ Contains(AfterLastAt(v), << "." >>)

ValidPhone(v) == DigitCount(v) >= MIN_PHONE_DIGITS

ValidAddress(v) == Len(v) >= MIN_ADDRESS_LENGTH

ValidDetails(v) == Len(v) >= MIN_DETAILS_LENGTH

\* a validation that does not test the length of the address
validate_customer_data_without_address(customer_data) ==
    /\ \A field \in { "name", "email", "phone", "address", "service_details" } :
          Strip(customer_data[field]) # << >>
    /\ Contains(customer_data.email, << "@" >>)
    /\ Contains(AfterLastAt(customer_data.email), << "." >>)
    /\ DigitCount(customer_data.phone) >= 10
    /\ Len(Strip(customer_data.name)) >= 2
    /\ Len(Strip(customer_data.service_details)) >= 10

\* AirtableService.validate_customer_data: TRUE when the answer is (True, "Valid")
validate_customer_data(customer_data) ==
    /\ \A field \in { "name", "email", "phone", "address", "service_details" } :
          Strip(customer_data[field]) # << >>
    /\ Contains(customer_data.email, << "@" >>)
    /\ Contains(AfterLastAt(customer_data.email), << "." >>)
    /\ DigitCount(customer_data.phone) >= 10
    /\ Len(Strip(customer_data.name)) >= 2
    /\ Len(Strip(customer_data.address)) >= 5
    /\ Len(Strip(customer_data.service_details)) >= 10

-------------------------------------------------------------------------------
(* Bounds of the model, and the inputs drawn within them.                     *)

\* messages received in one run by a client that waits for each reply
MaxMessages == 7

\* messages received in one run by clients that do not wait for the reply
MaxConcurrentMessages == 8

\* messages received in one run from a client that only asks for cancellations
MaxCancellationMessages == 5

\* process_message coroutines that may be suspended at the same time
MaxInFlight == 2

\* asyncio.sleep calls in one run
MaxSleeps == 1

\* the clock when the program starts
StartTime == 86400

\* the clock does not advance beyond StartTime + MaxElapsed
MaxElapsed == 86400

\* the length of an idle period between two messages (24 hours)
IdleSeconds == 86400

SessionIds == {"s1"}

msg_book == <<"b","o","o","k"," ","a"," ","s","e","r","v","i","c","e">>

msg_cancel == <<"c","a","n","c","e","l"," ","m","y"," ","b","o","o","k","i","n","g">>

msg_id == <<"1","A","2","B","3","C","4","D">>

msg_phone == <<"0","7","7","1","2","3","4","5","6","7">>

msg_email == <<"j","o","@","x",".","i","o">>

msg_short == <<"a">>

msg_confirm == <<" ","C","o","n","f","i","r","m">>

msg_edit == <<"e","d","i","t">>

\* the messages a client sends in the session specification
Messages ==
    { msg_book, msg_cancel, msg_id, msg_phone, msg_email, msg_short, msg_confirm,
      msg_edit }

msg_cancel_id ==
    <<"c","a","n","c","e","l"," ","1","A","2","B","3","C","4","D">>

\* the messages of a client that only asks for cancellations
CancellationMessages == { msg_cancel, msg_cancel_id, msg_id, msg_short }

\* every message of the session specifications
TableMessages == Messages \cup CancellationMessages

\* str(uuid.uuid4())[:8].upper() yields eight characters of 0-9A-F
UserIds == { msg_id, <<"5","E","6","F","7","A","8","B">> }

\* The texts the model passes to the router and to the identifier extractor.
\* Their results are computed once per text and looked up afterwards.
ProcessedMessages == {_process_context_aware_query(m) : m \in TableMessages}

RouteTable == [m \in TableMessages |-> route_message_branch(m)]

ProcessedQueryTable == [m \in TableMessages |-> _process_context_aware_query(m)]

UserIdTable == [m \in TableMessages \cup ProcessedMessages |-> _extract_user_id(m)]

StripTable == [m \in TableMessages |-> Strip(m)]

\* _handle_confirmation: the command that message.lower().strip() is
confirmation_command(message) ==
    LET message_lower == Strip(Lower(message))
    IN  IF \E k \in 1..Len(confirm_commands) : message_lower = confirm_commands[k]
            THEN "confirm"
        ELSE IF \E k \in 1..Len(edit_commands) : message_lower = edit_commands[k]
            THEN "edit"
        ELSE "other"

CommandTable == [m \in TableMessages |-> confirmation_command(m)]

ValidTable ==
    [m \in TableMessages |->
        [ name |-> ValidName(Strip(m)), email |-> ValidEmail(Strip(m)),
          phone |-> ValidPhone(Strip(m)), address |-> ValidAddress(Strip(m)),
          service_details |-> ValidDetails(Strip(m)) ]]

RouteOf(message) ==
    IF message \in DOMAIN RouteTable THEN RouteTable[message]
    ELSE route_message_branch(message)

ProcessedQueryOf(message) ==
    IF message \in DOMAIN ProcessedQueryTable THEN ProcessedQueryTable[message]
    ELSE _process_context_aware_query(message)

UserIdOf(message) ==
    IF message \in DOMAIN UserIdTable THEN UserIdTable[message]
    ELSE _extract_user_id(message)

\* message.strip()
StripOf(message) == IF message \in DOMAIN StripTable THEN StripTable[message] ELSE Strip(message)

-------------------------------------------------------------------------------
(* Session data (chat_models.py) and customer records (customer.py).          *)

\* Python's None for a text field; no text holds this element
None == << "None" >>

\* ServiceRequest(): a new booking draft
ServiceRequest ==
    [ step |-> "name", name |-> None, email |-> None, phone |-> None,
      address |-> None, service_details |-> None ]

\* self.service_booking_steps, followed by the terminal step
service_booking_steps ==
    << "name", "email", "phone", "address", "service_details", "confirmation", "completed" >>

\* SessionData(session_id) created at time t; user_data is << >> for None and
\* << draft >> otherwise; cancellation_pending is FALSE while the attribute is
\* not set (process_message reads it behind hasattr)
SessionData(session_id, t) ==
    [ session_id |-> session_id, conversation_history |-> << >>, user_data |-> << >>,
      cancellation_pending |-> FALSE, last_activity |-> t ]

\* a history that keeps the latest ten entries only
add_message_capped(session, role, n, t) ==
    [ session EXCEPT
        !.conversation_history =
            IF Len(@) < 10 THEN Append(@, [role |-> role, n |-> n])
            ELSE Append(Tail(@), [role |-> role, n |-> n]),
        !.last_activity = t ]

\* SessionData.add_message: n identifies the message the entry belongs to
add_message(session, role, n, t) ==
    [ session EXCEPT !.conversation_history = Append(@, [role |-> role, n |-> n]),
                     !.last_activity = t ]

\* get_or_create_session
get_or_create_session(sid, t) ==
    IF sid \in DOMAIN sessions THEN sessions[sid] ELSE SessionData(sid, t)

\* Customer(...).to_dict(): the fields posted to Airtable.  The date is written
\* with strftime("%Y-%m-%d %H:%M:%S"), which is exact at whole seconds.
Customer(user_data, user_id, t) ==
    [ UserID |-> user_id, Name |-> Strip(user_data.name),
      Email |-> Strip(Lower(user_data.email)), Phone |-> Strip(user_data.phone),
      Address |-> Strip(user_data.address),
      Services_details |-> Strip(user_data.service_details),
      Date |-> t, DateParses |-> TRUE, Status |-> "active" ]

\* Customer.get_confirmation_message: the User ID the confirmation text shows
get_confirmation_message(customer) == customer.UserID

CANCELLATION_HOURS == 24

SECONDS_PER_HOUR == 3600

\* Customer.can_cancel
can_cancel(date_created, t, cancellation_hours) ==
    (t - date_created) < cancellation_hours * SECONDS_PER_HOUR

\* Customer.get_cancellation_deadline
get_cancellation_deadline(date_created, cancellation_hours) ==
    date_created + cancellation_hours * SECONDS_PER_HOUR

\* deadline.strftime('%Y-%m-%d at %H:%M'): the seconds are dropped
FormatMinute(t) == t - (t % 60)

-------------------------------------------------------------------------------
(* BookingStateMachine: the five field steps of chatbot.py.                   *)

\* a name step that goes on to step phone
_collect_name_skips_email(message, user_data) ==
    IF ValidTable[message].name
        THEN [user_data EXCEPT !.name = StripOf(message), !.step = "phone"]
    ELSE user_data

_collect_name(message, user_data) ==
    LET name == StripOf(message)
    IN  IF ValidTable[message].name THEN [user_data EXCEPT !.name = name, !.step = "email"]
        ELSE user_data

\* an email step that stores its input without validating it
_collect_email_unvalidated(message, user_data) ==
    [user_data EXCEPT !.email = StripOf(message), !.step = "phone"]

_collect_email(message, user_data) ==
    LET email == StripOf(message)
    IN  IF ValidTable[message].email THEN [user_data EXCEPT !.email = email, !.step = "phone"]
        ELSE user_data

\* a phone step that stores its input without validating it
_collect_phone_unvalidated(message, user_data) ==
    [user_data EXCEPT !.phone = StripOf(message), !.step = "address"]

_collect_phone(message, user_data) ==
    LET phone == StripOf(message)
    IN  IF ValidTable[message].phone THEN [user_data EXCEPT !.phone = phone, !.step = "address"]
        ELSE user_data

_collect_address(message, user_data) ==
    LET address == StripOf(message)
    IN  IF ValidTable[message].address
            THEN [user_data EXCEPT !.address = address, !.step = "service_details"]
        ELSE user_data

_collect_service_details(message, user_data) ==
    LET service_details == StripOf(message)
    IN  IF ValidTable[message].service_details
            THEN [user_data EXCEPT !.service_details = service_details,
                                   !.step = "confirmation"]
        ELSE user_data

\* the command a message is at step confirmation
ConfirmationCommand(message) == CommandTable[message]

\* an edit that goes back to step name and keeps what was entered
ResetStepOnly(user_data) == [ user_data EXCEPT !.step = "name" ]

\* _handle_confirmation, 'edit' branch: back to step name, every field None
ResetDraft(user_data) ==
    [ user_data EXCEPT !.step = "name", !.name = None, !.email = None, !.phone = None,
                       !.address = None, !.service_details = None ]

\* a confirmation that discards the draft even when the creation call failed
AfterCreateDropsDraft(user_data, created) == << >>

\* a confirmation that leaves the draft in the session after the record is created
AfterCreateKeepsDraft(user_data, created) == << user_data >>

\* _handle_confirmation, 'confirm' branch: the session's user_data after
\* create_customer_record returned record_id (<< >> stands for None)
AfterCreate(user_data, created) == IF created THEN << >> ELSE << user_data >>

-------------------------------------------------------------------------------
(* The Airtable record store (airtable_service.py).  Every HTTP request may   *)
(* fail; _make_request then returns None.  env holds the outcome of each      *)
(* request a message can issue and the identifier uuid4 draws.                *)

Envs ==
    [ create_ok : BOOLEAN, find_ok : BOOLEAN, delete_find_ok : BOOLEAN,
      delete_ok : BOOLEAN, user_id : UserIds ]

\* every request succeeds
AllOk(user_id) ==
    [ create_ok |-> TRUE, find_ok |-> TRUE, delete_find_ok |-> TRUE, delete_ok |-> TRUE,
      user_id |-> user_id ]

\* the records filterByFormula {UserID} = 'user_id' selects, by position
Matching(recs, user_id) == {i \in 1..Len(recs) : recs[i].UserID = user_id}

\* recs without its i-th record
RemoveAt(recs, i) == SubSeq(recs, 1, i - 1) \o SubSeq(recs, i + 1, Len(recs))

\* Customer.from_dict at time t: a date that does not parse becomes now
from_dict(data, t) ==
    [ user_id |-> data.UserID, name |-> data.Name, email |-> data.Email,
      phone |-> data.Phone, address |-> data.Address,
      service_details |-> data.Services_details,
      date_created |-> IF data.DateParses THEN data.Date ELSE t,
      status |-> data.Status ]

\* find_customer_by_user_id: << >> stands for None, which is the answer when
\* the GET fails and when no record matches; otherwise the first match
find_customer_by_user_id(recs, user_id, t, find_ok) ==
    LET hits == Matching(recs, user_id)
    IN  IF ~find_ok \/ hits = {} THEN << >>
        ELSE << from_dict(recs[SetMin(hits)], t) >>

\* check_cancellation_eligibility at time t
check_cancellation_eligibility(recs, user_id, t, env) ==
    LET hits == Matching(recs, user_id)
    IN  IF ~env.find_ok \/ hits = {}
            THEN [ eligible |-> FALSE, customer |-> FALSE, time_exceeded |-> FALSE,
                   deadline |-> 0 ]
        ELSE LET customer == recs[SetMin(hits)]
                 \* Customer.from_dict: a date that does not parse becomes now
                 date_created == IF customer.DateParses THEN customer.Date ELSE t
             IN  IF customer.Status # "active"
                     THEN [ eligible |-> FALSE, customer |-> TRUE, time_exceeded |-> FALSE,
                            deadline |-> 0 ]
                 ELSE IF can_cancel(date_created, t, CANCELLATION_HOURS)
                     THEN [ eligible |-> TRUE, customer |-> TRUE, time_exceeded |-> FALSE,
                            deadline |-> 0 ]
                 ELSE [ eligible |-> FALSE, customer |-> TRUE, time_exceeded |-> TRUE,
                        deadline |-> FormatMinute(
                            get_cancellation_deadline(date_created, CANCELLATION_HOURS)) ]

\* delete_customer_record: look the record up again, then delete the first hit
delete_customer_record(recs, user_id, env) ==
    LET hits == Matching(recs, user_id)
    IN  IF ~env.delete_find_ok \/ hits = {}
            THEN [ deleted |-> FALSE, records |-> recs, requests |-> << "GET" >> ]
        ELSE IF ~env.delete_ok
            THEN [ deleted |-> FALSE, records |-> recs, requests |-> << "GET", "DELETE" >> ]
        ELSE [ deleted |-> TRUE, records |-> RemoveAt(recs, SetMin(hits)),
               requests |-> << "GET", "DELETE" >> ]

\* process_cancellation: the outcome, the table afterwards and the requests made
process_cancellation(recs, user_id, t, env) ==
    LET eligibility == check_cancellation_eligibility(recs, user_id, t, env)
        deletion == delete_customer_record(recs, user_id, env)
    IN  IF ~eligibility.eligible
            THEN [ outcome |-> IF eligibility.time_exceeded THEN "time_exceeded"
                               ELSE IF ~eligibility.customer THEN "not_found"
                               ELSE "inactive",
                   deadline |-> eligibility.deadline,
                   records |-> recs, requests |-> << "GET" >>,
                   failed |-> ~env.find_ok ]
        ELSE [ outcome |-> IF deletion.deleted THEN "success" ELSE "delete_failed",
               deadline |-> 0,
               records |-> deletion.records,
               requests |-> << "GET" >> \o deletion.requests,
               failed |-> ~env.delete_find_ok \/ ~env.delete_ok ]

\* a creation call that reports an id without storing the record
create_customer_record_unstored(recs, customer, env) ==
    [ created |-> env.create_ok, records |-> recs ]

\* create_customer_record: the POST either stores the record and returns its
\* id, or fails and returns None
create_customer_record(recs, customer, env) ==
    IF env.create_ok THEN [ created |-> TRUE, records |-> Append(recs, customer) ]
    ELSE [ created |-> FALSE, records |-> recs ]

-------------------------------------------------------------------------------
(* The handlers of chatbot.py.  Each yields the session after the handler,    *)
(* the table after it, and what the handler did.  A handler runs without      *)
(* suspension: the record store is called through the blocking requests       *)
(* library, so no other coroutine runs between the dispatch and its end.      *)

Effect(session, recs, handler, route, outcome, requests, created, deadline, user_id, failed) ==
    [ session |-> session, records |-> recs, handler |-> handler, route |-> route,
      outcome |-> outcome, requests |-> requests, created |-> created,
      deadline |-> deadline, user_id |-> user_id, failed |-> failed ]

\* a cancellation that leaves the pending flag as it was
_process_cancellation_keeps_pending(session, recs, user_id, handler, route, t, env) ==
    LET cancellation_result == process_cancellation(recs, user_id, t, env)
    IN  Effect(session, cancellation_result.records, handler, route,
               cancellation_result.outcome, cancellation_result.requests, NoId,
               cancellation_result.deadline, user_id, cancellation_result.failed)

\* _process_cancellation_with_userid, after the caller cleared the pending flag
_process_cancellation_with_userid(session, recs, user_id, handler, route, t, env) ==
    LET cancellation_result == process_cancellation(recs, user_id, t, env)
    IN  Effect([session EXCEPT !.cancellation_pending = FALSE],
               cancellation_result.records, handler, route,
               cancellation_result.outcome, cancellation_result.requests, NoId,
               cancellation_result.deadline, user_id, cancellation_result.failed)

\* an identifier capture that gives up on a message without an identifier
_handle_cancellation_userid_input_once(message, session, recs, t, env) ==
    LET extracted == UserIdOf(message)
    IN  IF extracted # NoId
            THEN _process_cancellation_with_userid(session, recs, extracted,
                                                   "identifier_capture", "none", t, env)
        ELSE Effect([session EXCEPT !.cancellation_pending = FALSE], recs,
                    "identifier_capture", "none", "invalid_format", << >>, NoId, 0, NoId,
                    FALSE)

\* _handle_cancellation_userid_input
_handle_cancellation_userid_input(message, session, recs, t, env) ==
    LET extracted == UserIdOf(message)
        clean_message == Upper(Strip(message))
        user_id == IF extracted # NoId THEN extracted
                   ELSE IF Len(clean_message) = USER_ID_LENGTH /\ IsAlnumStr(clean_message)
                       THEN clean_message
                   ELSE NoId
    IN  IF user_id # NoId
            THEN _process_cancellation_with_userid(session, recs, user_id,
                                                   "identifier_capture", "none", t, env)
        ELSE Effect(session, recs, "identifier_capture", "none", "invalid_format",
                    << >>, NoId, 0, NoId, FALSE)

\* a cancellation request that asks for the identifier without setting the flag
_handle_cancellation_request_unflagged(message, session, recs, t, env) ==
    LET user_id == UserIdOf(message)
    IN  IF user_id # NoId
            THEN _process_cancellation_with_userid(session, recs, user_id,
                                                   "router", "Cancellation", t, env)
        ELSE Effect(session, recs, "router", "Cancellation", "ask_user_id", << >>, NoId,
                    0, NoId, FALSE)

\* _handle_cancellation_request, given the context-processed message
_handle_cancellation_request(message, session, recs, t, env) ==
    LET user_id == UserIdOf(message)
    IN  IF user_id # NoId
            THEN _process_cancellation_with_userid(session, recs, user_id,
                                                   "router", "Cancellation", t, env)
        ELSE Effect([session EXCEPT !.cancellation_pending = TRUE], recs,
                    "router", "Cancellation", "ask_user_id", << >>, NoId, 0, NoId, FALSE)

\* a booking that starts at the email step
_initiate_service_booking_at_email(session, recs) ==
    Effect([session EXCEPT !.user_data = << [ ServiceRequest EXCEPT !.step = "email" ] >>],
           recs, "router", "ServiceBooking", "ask_name", << >>, NoId, 0, NoId, FALSE)

\* _initiate_service_booking
_initiate_service_booking(session, recs) ==
    Effect([session EXCEPT !.user_data = << ServiceRequest >>], recs,
           "router", "ServiceBooking", "ask_name", << >>, NoId, 0, NoId, FALSE)

\* _handle_confirmation
_handle_confirmation(message, user_data, session, recs, t, env) ==
    LET command == ConfirmationCommand(message)
        customer == Customer(user_data, env.user_id, t)
        creation == create_customer_record(recs, customer, env)
    IN  IF command = "confirm"
            THEN Effect([session EXCEPT !.user_data = AfterCreate(user_data, creation.created)],
                        creation.records, "booking", "none",
                        IF creation.created THEN "booked" ELSE "create_failed",
                        << "POST" >>,
                        IF creation.created THEN get_confirmation_message(customer)
                        ELSE NoId, 0, NoId,
                        ~creation.created)
        ELSE IF command = "edit"
            THEN Effect([session EXCEPT !.user_data = << ResetDraft(user_data) >>], recs,
                        "booking", "none", "reset", << >>, NoId, 0, NoId, FALSE)
        ELSE Effect(session, recs, "booking", "none", "reprompt", << >>, NoId, 0, NoId, FALSE)

\* the field steps of _handle_service_booking
CollectField(message, user_data) ==
    IF user_data.step = "name" THEN _collect_name(message, user_data)
    ELSE IF user_data.step = "email" THEN _collect_email(message, user_data)
    ELSE IF user_data.step = "phone" THEN _collect_phone(message, user_data)
    ELSE IF user_data.step = "address" THEN _collect_address(message, user_data)
    ELSE IF user_data.step = "service_details"
        THEN _collect_service_details(message, user_data)
    ELSE [user_data EXCEPT !.step = "name"]

\* a booking handler that abandons the draft when the message reads as a
\* cancellation
_handle_service_booking_abandoning(message, session, recs, t, env) ==
    IF session.user_data = << >>
        THEN Effect([session EXCEPT !.user_data = << ServiceRequest >>], recs,
                    "booking", "none", "ask_name", << >>, NoId, 0, NoId, FALSE)
    ELSE IF RouteOf(message) = "Cancellation"
        THEN Effect([session EXCEPT !.user_data = << >>], recs,
                    "booking", "none", "abandoned", << >>, NoId, 0, NoId, FALSE)
    ELSE LET user_data == session.user_data[1]
             collected == CollectField(message, user_data)
         IN  IF user_data.step = "confirmation"
                 THEN _handle_confirmation(message, user_data, session, recs, t, env)
             ELSE Effect([session EXCEPT !.user_data = << collected >>], recs,
                         "booking", "none",
                         IF collected.step # user_data.step THEN "stored" ELSE "reprompt",
                         << >>, NoId, 0, NoId, FALSE)

\* _handle_service_booking
_handle_service_booking(message, session, recs, t, env) ==
    IF session.user_data = << >>
        THEN Effect([session EXCEPT !.user_data = << ServiceRequest >>], recs,
                    "booking", "none", "ask_name", << >>, NoId, 0, NoId, FALSE)
    ELSE LET user_data == session.user_data[1]
             collected == CollectField(message, user_data)
         IN  IF user_data.step = "confirmation"
                 THEN _handle_confirmation(message, user_data, session, recs, t, env)
             ELSE Effect([session EXCEPT !.user_data = << collected >>], recs,
                         "booking", "none",
                         IF collected.step # user_data.step THEN "stored" ELSE "reprompt",
                         << >>, NoId, 0, NoId, FALSE)

\* _route_message_enhanced
_route_message_enhanced(message, session, recs, t, env) ==
    LET route == RouteOf(message)
        processed_message == ProcessedQueryOf(message)
    IN  IF route = "Cancellation"
            THEN _handle_cancellation_request(processed_message, session, recs, t, env)
        ELSE IF route = "ServiceBooking" THEN _initiate_service_booking(session, recs)
        ELSE Effect(session, recs, "router", route, "answer", << >>, NoId, 0, NoId, FALSE)

\* a dispatch that sends a message to the router while a draft is being filled
DispatchIgnoringDraft(session) ==
    IF session.cancellation_pending THEN "identifier_capture"
    ELSE "router"

\* a dispatch that does not look at the cancellation_pending flag
DispatchWithoutPending(session) ==
    IF session.user_data # << >> /\ session.user_data[1].step # "completed"
        THEN "booking"
    ELSE "router"

\* process_message: which handler a message goes to, from the session state
Dispatch(session) ==
    IF session.cancellation_pending THEN "identifier_capture"
    ELSE IF session.user_data # << >> /\ session.user_data[1].step # "completed"
        THEN "booking"
    ELSE "router"

\* process_message up to response_text
HandleMessage(message, session, recs, t, env) ==
    IF Dispatch(session) = "identifier_capture"
        THEN _handle_cancellation_userid_input(message, session, recs, t, env)
    ELSE IF Dispatch(session) = "booking"
        THEN _handle_service_booking(message, session, recs, t, env)
    ELSE _route_message_enhanced(message, session, recs, t, env)

\* whether message passes the test of the field step the draft is at
InputValid(message, step) ==
    IF step = "name" THEN ValidTable[message].name
    ELSE IF step = "email" THEN ValidTable[message].email
    ELSE IF step = "phone" THEN ValidTable[message].phone
    ELSE IF step = "address" THEN ValidTable[message].address
    ELSE IF step = "service_details" THEN ValidTable[message].service_details
    ELSE FALSE

\* what is recorded of the dispatch of message number n
DispatchRecord(n, sid, message, before, effect) ==
    [ n |-> n, sid |-> sid, command |-> ConfirmationCommand(message),
      pending_before |-> before.cancellation_pending,
      step_before |-> IF before.user_data = << >> THEN "none" ELSE before.user_data[1].step,
      valid |-> IF before.user_data = << >> THEN FALSE
                ELSE InputValid(message, before.user_data[1].step),
      handler |-> effect.handler, route |-> effect.route, outcome |-> effect.outcome,
      requests |-> effect.requests, created |-> effect.created,
      deadline |-> effect.deadline, user_id |-> effect.user_id,
      failed |-> effect.failed, hours |-> 0 ]

NoDispatch ==
    [ n |-> 0, sid |-> "", command |-> "other", pending_before |-> FALSE,
      step_before |-> "none", valid |-> FALSE, handler |-> "none", route |-> "none", outcome |-> "none",
      requests |-> << >>, created |-> NoId, deadline |-> 0, user_id |-> NoId,
      failed |-> FALSE, hours |-> 0 ]

-------------------------------------------------------------------------------
(* Audio generation (gemini_service.generate_speech), the part of             *)
(* process_message in which the coroutine can be suspended: asyncio.sleep in  *)
(* _wait_for_rate_limit and between the retries of the TTS request.  The time *)
(* since the last TTS request is a matter of fractions of the clock's         *)
(* resolution, so whether it is below the interval is an input of the step.   *)

tts_request_interval == 2

max_retries == 3

\* what one TTS request can end in: the function returns, or the attempt is
\* counted (status 429, a timeout, an unreadable answer) and retried after a sleep
TtsOutcomes == { "returned", "retry" }

\* the coroutine of message d suspended in asyncio.sleep: what it has done to the
\* record store and where it sleeps
Suspended(d, pc, retry_count) ==
    [ n |-> d.n, sid |-> d.sid, requests |-> d.requests, created |-> d.created,
      pc |-> pc, retry_count |-> retry_count ]

\* an attempt that appends the assistant entry to every session
TtsAttemptForAll(sid, session, d, retry_count, t, outcome, others) ==
    LET rc == IF outcome = "retry" THEN retry_count + 1 ELSE retry_count
        current == (sid :> session) @@ sessions
    IN  IF outcome = "retry" /\ rc < max_retries
            THEN /\ sleeps < MaxSleeps
                 /\ sessions' = current
                 /\ tasks' = others \cup { Suspended(d, "retry", rc) }
                 /\ sleeps' = sleeps + 1
        ELSE /\ sessions' = [ s \in DOMAIN current |->
                                 add_message(current[s], "assistant", d.n, t) ]
             /\ tasks' = others
             /\ sleeps' = sleeps

\* One pass of the retry loop of generate_speech, then either asyncio.sleep
\* (the coroutine joins tasks) or the end of process_message at time t (the
\* assistant entry is appended).
TtsAttempt(sid, session, d, retry_count, t, outcome, others) ==
    LET rc == IF outcome = "retry" THEN retry_count + 1 ELSE retry_count
    IN  IF outcome = "retry" /\ rc < max_retries
            THEN /\ sleeps < MaxSleeps
                 /\ sessions' = (sid :> session) @@ sessions
                 /\ tasks' = others \cup { Suspended(d, "retry", rc) }
                 /\ sleeps' = sleeps + 1
        ELSE /\ sessions' = (sid :> add_message(session, "assistant", d.n, t)) @@ sessions
             /\ tasks' = others
             /\ sleeps' = sleeps

\* generate_speech from its start: _wait_for_rate_limit sleeps when the time
\* elapsed since the last TTS request is below the interval, then the first request
GenerateSpeech(sid, session, d, t) ==
    \E elapsed \in { 0, tts_request_interval } :
        IF elapsed < tts_request_interval
            THEN /\ sleeps < MaxSleeps
                 /\ sessions' = (sid :> session) @@ sessions
                 /\ tasks' = tasks \cup { Suspended(d, "rate_limit", 0) }
                 /\ sleeps' = sleeps + 1
        ELSE \E outcome \in TtsOutcomes : TtsAttempt(sid, session, d, 0, t, outcome, tasks)

-------------------------------------------------------------------------------
(* The actions.                                                               *)

\* The request outcomes to consider for a message: those of the requests its
\* handler issues (the outcome of a request that is not issued changes nothing).
EnvsFor(message, session) ==
    LET probe == HandleMessage(message, session, records, now,
                               AllOk(CHOOSE u \in UserIds : TRUE))
    IN  IF probe.requests = << >> THEN { AllOk(CHOOSE u \in UserIds : TRUE) }
        ELSE IF probe.requests[1] = "POST"
            THEN { e \in Envs : e.find_ok /\ e.delete_find_ok /\ e.delete_ok }
        ELSE { e \in Envs : e.create_ok /\ e.user_id = (CHOOSE u \in UserIds : TRUE) }

\* process_message for a message that arrives for session sid: the user entry,
\* the dispatch and the handler run at once; the coroutine then either ends
\* or is suspended in the audio generation.
ProcessMessage(sid, message) ==
    /\ Cardinality(tasks) < MaxInFlight
    /\ \E env \in EnvsFor(message, add_message(get_or_create_session(sid, now),
                                                 "user", nmsgs + 1, now)) :
          LET n == nmsgs + 1
              before == get_or_create_session(sid, now)
              entered == add_message(before, "user", n, now)
              effect == HandleMessage(message, entered, records, now, env)
              d == DispatchRecord(n, sid, message, before, effect)
          IN  /\ records' = effect.records
              /\ last' = d
              /\ nmsgs' = n
              /\ GenerateSpeech(sid, effect.session, d, now)
    /\ UNCHANGED << now, routing, search >>

\* a suspended coroutine wakes from asyncio.sleep and runs to the next sleep or
\* to the end of process_message
Resume(task) ==
    /\ task \in tasks
    /\ \E outcome \in TtsOutcomes :
          TtsAttempt(task.sid, sessions[task.sid], task, task.retry_count, now,
                     outcome, tasks \ {task})
    /\ UNCHANGED << records, now, nmsgs, last, routing, search >>

\* no message arrives for IdleSeconds
Idle ==
    /\ tasks = {}
    /\ now + IdleSeconds <= StartTime + MaxElapsed
    /\ now' = now + IdleSeconds
    /\ UNCHANGED << sessions, records, tasks, nmsgs, sleeps, last, routing, search >>

\* a record that is in the table when the program starts
ExistingRecord(user_id, date, status) ==
    [ UserID |-> user_id, Name |-> msg_edit, Email |-> msg_email, Phone |-> msg_phone,
      Address |-> msg_book, Services_details |-> msg_book,
      Date |-> date, DateParses |-> TRUE, Status |-> status ]

\* the tables the program may start with: empty, one active record created a
\* second less than 24 hours ago, one record that is not active
InitialStores ==
    { << >>,
      << ExistingRecord(msg_id, StartTime - CANCELLATION_HOURS * SECONDS_PER_HOUR + 1, "active") >>,
      << ExistingRecord(msg_id, StartTime - 1, "cancelled") >> }

RoutingIdle == [ phase |-> "idle" ]

SearchIdle == [ phase |-> "idle" ]

Init ==
    /\ sessions = << >>
    /\ records \in InitialStores
    /\ tasks = {}
    /\ now = StartTime
    /\ nmsgs = 0
    /\ sleeps = 0
    /\ last = NoDispatch
    /\ routing = RoutingIdle
    /\ search = SearchIdle

\* a client that waits for the reply to a message before it sends the next
Next ==
    \/ \E sid \in SessionIds : \E message \in Messages :
          tasks = {} /\ nmsgs < MaxMessages /\ ProcessMessage(sid, message)
    \/ \E task \in tasks : Resume(task)
    \/ Idle

Spec == Init /\ [][Next]_vars

\* a client that only asks for cancellations and waits for each reply
CancellationNext ==
    \/ \E sid \in SessionIds : \E message \in CancellationMessages :
          tasks = {} /\ nmsgs < MaxCancellationMessages /\ ProcessMessage(sid, message)
    \/ \E task \in tasks : Resume(task)
    \/ Idle

\* a record whose Date field holds text that strptime does not parse
UnparsedRecord(user_id, date, status) ==
    [ ExistingRecord(user_id, date, status) EXCEPT !.DateParses = FALSE ]

\* the tables of InitialStores and one with an active record created 24 hours
\* ago whose Date field does not parse
CancellationStores ==
    InitialStores \cup
        { << UnparsedRecord(msg_id, StartTime - CANCELLATION_HOURS * SECONDS_PER_HOUR, "active") >> }

CancellationInit ==
    /\ sessions = << >>
    /\ records \in CancellationStores
    /\ tasks = {}
    /\ now = StartTime
    /\ nmsgs = 0
    /\ sleeps = 0
    /\ last = NoDispatch
    /\ routing = RoutingIdle
    /\ search = SearchIdle

CancellationSpec == CancellationInit /\ [][CancellationNext]_vars

\* messages of the sessions that the sweep finds: one starts a booking draft,
\* one sets cancellation_pending
CleanupMessages == { msg_book, msg_cancel }

CleanupSessionIds == { "s1", "s2" }

\* the arguments cleanup_old_sessions is called with
CleanupHours == { 12, 24 }

MaxCleanupMessages == 3

\* what is recorded of a call of cleanup_old_sessions
CleanupRecord(hours) == [ NoDispatch EXCEPT !.handler = "cleanup", !.n = last.n, !.hours = hours ]

\* a sweep that also removes the sessions last active exactly at the cutoff
cleanup_old_sessions_inclusive(hours) ==
    LET cutoff_time == now - hours * SECONDS_PER_HOUR
        old_sessions == { session_id \in DOMAIN sessions :
                            sessions[session_id].last_activity <= cutoff_time }
    IN  /\ sessions' = [ session_id \in DOMAIN sessions \ old_sessions |->
                            sessions[session_id] ]
        /\ last' = CleanupRecord(hours)
        /\ UNCHANGED << records, tasks, now, nmsgs, sleeps, routing, search >>

\* cleanup_old_sessions(hours): a function without await, so it runs at once
cleanup_old_sessions(hours) ==
    LET cutoff_time == now - hours * SECONDS_PER_HOUR
        old_sessions == { session_id \in DOMAIN sessions :
                            sessions[session_id].last_activity < cutoff_time }
    IN  /\ sessions' = [ session_id \in DOMAIN sessions \ old_sessions |->
                            sessions[session_id] ]
        /\ last' = CleanupRecord(hours)
        /\ UNCHANGED << records, tasks, now, nmsgs, sleeps, routing, search >>

CleanupInit == Init /\ records = << >>

\* clients that wait for each reply, and the housekeeping sweep
CleanupNext ==
    \/ \E sid \in CleanupSessionIds : \E message \in CleanupMessages :
          tasks = {} /\ nmsgs < MaxCleanupMessages /\ ProcessMessage(sid, message)
    \/ \E task \in tasks : Resume(task)
    \/ Idle
    \/ \E hours \in CleanupHours : cleanup_old_sessions(hours)

CleanupSpec == CleanupInit /\ [][CleanupNext]_vars

\* the messages of clients that do not wait for the reply
ConcurrentMessages == { msg_book, msg_phone, msg_email, msg_confirm }

ConcurrentInit == Init /\ records = << >>

ConcurrentNext ==
    \/ \E sid \in SessionIds : \E message \in ConcurrentMessages :
          nmsgs < MaxConcurrentMessages /\ ProcessMessage(sid, message)
    \/ \E task \in tasks : Resume(task)

ConcurrentSpec == ConcurrentInit /\ [][ConcurrentNext]_vars

\* messages received in one run by the clients of two sessions
MaxInterleavedMessages == 4

\* clients of two sessions that do not wait for each other's replies
InterleavedNext ==
    \/ \E sid \in CleanupSessionIds : \E message \in CleanupMessages :
          nmsgs < MaxInterleavedMessages /\ ProcessMessage(sid, message)
    \/ \E task \in tasks : Resume(task)

InterleavedSpec == ConcurrentInit /\ [][InterleavedNext]_vars

\* identifiers a booking commit can draw: the two of UserIds, one of digits only
\* and one of letters only
ExtractorIds ==
    UserIds \cup { <<"0","0","0","0","0","0","0","0">>, <<"D","E","A","D","B","E","E","F">> }

\* whitespace around a message
Pads == { << >>, << " " >>, << " ", " " >> }

\* an identifier typed in upper case, in lower case or in mixed case
CaseVariants(user_id) ==
    { user_id, Lower(user_id),
      [ i \in 1..Len(user_id) |-> IF i % 2 = 0 THEN user_id[i] ELSE Lower(user_id)[i] ] }

\* messages that consist of an identifier and surrounding whitespace
IdMessages ==
    { left \o typed \o right :
        left \in Pads, right \in Pads,
        typed \in UNION { CaseVariants(user_id) : user_id \in ExtractorIds } }

\* other texts handed to the extractor: the messages of the sessions, eight
\* caseless letters, an identifier followed by one more character, and two texts
\* that only the extended pattern matches
ExtractorMessages ==
    IdMessages \cup TableMessages
        \cup { [ i \in 1..USER_ID_LENGTH |-> CaselessLetter ],
               << " " >> \o [ i \in 1..USER_ID_LENGTH |-> CaselessLetter ],
               [ i \in 1..(USER_ID_LENGTH - 1) |-> CaselessLetter ],
               msg_id \o << "5" >>,
               << "_","a","b","1","2","3","4","5","6" >>,
               << "a","b","c","d","e","1","2","3","4" >> }

ExtractorInit ==
    /\ sessions = << >>
    /\ records = << >>
    /\ tasks = {}
    /\ now = StartTime
    /\ nmsgs = 0
    /\ sleeps = 0
    /\ last = NoDispatch
    /\ search = SearchIdle
    /\ routing \in { [ phase |-> "to_extract", message |-> m ] : m \in ExtractorMessages }

\* one call of _extract_user_id
ExtractUserId ==
    /\ routing.phase = "to_extract"
    /\ routing' = [ phase |-> "extracted", message |-> routing.message,
                    user_id |-> _extract_user_id(routing.message) ]
    /\ UNCHANGED << sessions, records, tasks, now, nmsgs, sleeps, last, search >>

ExtractorNext == ExtractUserId

ExtractorSpec == ExtractorInit /\ [][ExtractorNext]_vars

-------------------------------------------------------------------------------
(* Properties of the session machine.                                         *)

\* C1: every message is handled by identifier capture when the session's
\* cancellation_pending flag was set, otherwise by the booking state machine when
\* the session had a draft whose step is not completed, and by the router only
\* when neither was the case.
C1_DispatchOrder ==
    last.handler # "none" =>
        /\ last.pending_before => last.handler = "identifier_capture"
        /\ (~last.pending_before /\ last.step_before \notin {"none", "completed"})
              => last.handler = "booking"
        /\ last.handler = "router"
              => (~last.pending_before /\ last.step_before \in {"none", "completed"})

\* a message that arrived while the flag was set went to identifier capture
C1_Witness ==
    /\ last.pending_before
    /\ last.handler = "identifier_capture"
    /\ last.outcome = "invalid_format"

\* C3: in a session with an active draft, the fields of the steps before the
\* current step are set and pass their step's validator, and the fields of the
\* current step and of the later steps are None.
C3_DraftFields ==
    \A sid \in DOMAIN sessions :
        sessions[sid].user_data # << >> =>
            LET user_data == sessions[sid].user_data[1]
                position == CHOOSE k \in 1..Len(service_booking_steps) :
                                service_booking_steps[k] = user_data.step
            IN  /\ IF position > 1 THEN user_data.name # None /\ ValidName(user_data.name)
                   ELSE user_data.name = None
                /\ IF position > 2
                       THEN user_data.email # None /\ ValidEmail(user_data.email)
                   ELSE user_data.email = None
                /\ IF position > 3
                       THEN user_data.phone # None /\ ValidPhone(user_data.phone)
                   ELSE user_data.phone = None
                /\ IF position > 4
                       THEN user_data.address # None /\ ValidAddress(user_data.address)
                   ELSE user_data.address = None
                /\ IF position > 5
                       THEN /\ user_data.service_details # None
                            /\ ValidDetails(user_data.service_details)
                   ELSE user_data.service_details = None

\* a draft that has its first three fields and waits for the address
C3_Witness ==
    \E sid \in DOMAIN sessions :
        /\ sessions[sid].user_data # << >>
        /\ sessions[sid].user_data[1].step = "address"
        /\ sessions[sid].user_data[1].phone # None

\* C4: a cancellation for an identifier ends not found when no record has the
\* identifier, inactive when the record's status is not active, in success with
\* the record deleted when the record is active and younger than 24 hours, and
\* otherwise window-expired with the deadline (creation time plus 24 hours, as
\* the answer prints it) reported and the record kept.
C4_CancellationOutcome ==
    [][ (last'.n # last.n /\ last'.user_id # NoId) =>
          LET hits == {i \in 1..Len(records) : records[i].UserID = last'.user_id}
          IN  IF hits = {}
                  THEN last'.outcome = "not_found" /\ records' = records
              ELSE LET customer == records[SetMin(hits)]
                   IN  IF customer.Status # "active"
                           THEN last'.outcome = "inactive" /\ records' = records
                       ELSE IF now - customer.Date < CANCELLATION_HOURS * SECONDS_PER_HOUR
                           THEN /\ last'.outcome = "success"
                                /\ records' = RemoveAt(records, SetMin(hits))
                       ELSE /\ last'.outcome = "time_exceeded"
                            /\ last'.deadline =
                                   FormatMinute(customer.Date
                                                + CANCELLATION_HOURS * SECONDS_PER_HOUR)
                            /\ records' = records ]_vars

\* a cancellation of an active record found the window expired
C4_Witness ==
    /\ last.outcome = "time_exceeded"
    /\ \E i \in 1..Len(records) : records[i].UserID = last.user_id

-------------------------------------------------------------------------------
(* Properties of concurrently processed messages.                             *)

\* C2, as stated: when a confirm message arrives for a session while the
\* preceding confirm message, which made a record-creation call, is still being
\* processed, the second message makes no creation call and the two create at
\* most one record.
C2_OneCreationCall ==
    \A task \in tasks :
        ( /\ "POST" \in {task.requests[k] : k \in 1..Len(task.requests)}
          /\ last.n = task.n + 1
          /\ last.sid = task.sid
          /\ last.command = "confirm" )
        => /\ last.requests = << >>
           /\ ~(task.created # NoId /\ last.created # NoId)

\* C2, amended: the two messages create at most one record, and the second makes
\* a creation call only when the call of the first failed.
C2_OneRecordCreated ==
    \A task \in tasks :
        ( /\ "POST" \in {task.requests[k] : k \in 1..Len(task.requests)}
          /\ last.n = task.n + 1
          /\ last.sid = task.sid
          /\ last.command = "confirm" )
        => /\ ~(task.created # NoId /\ last.created # NoId)
           /\ (last.requests # << >> => task.created = NoId)

\* the second of two concurrent confirm messages, after the first created the record
C2_Witness ==
    \E task \in tasks :
        /\ task.created # NoId
        /\ last.n = task.n + 1
        /\ last.sid = task.sid
        /\ last.command = "confirm"
        /\ last.handler = "router"

\* C10: the history of a session alternates user, assistant: no entry of
\* another message lies between the two entries of a message.
C10_HistoryAlternates ==
    \A sid \in DOMAIN sessions :
        LET history == sessions[sid].conversation_history
        IN  \A i \in 1..Len(history) :
                history[i].role = (IF i % 2 = 1 THEN "user" ELSE "assistant")

\* a message of a session has been dispatched while the preceding message of
\* that session was still being processed, and the user entries of both are in
\* the history
C10_Witness ==
    \E task \in tasks :
        /\ last.sid = task.sid
        /\ last.n = task.n + 1
        /\ LET history == sessions[task.sid].conversation_history
           IN  \E i, j \in 1..Len(history) :
                   /\ history[i] = [ role |-> "user", n |-> task.n ]
                   /\ history[j] = [ role |-> "user", n |-> last.n ]

-------------------------------------------------------------------------------
(* The router on its own: _route_message_enhanced applied to one message of a *)
(* fresh session, for every message made of a few words.                      *)

\* words of a routed message
MaxWords == 4

RouterWords ==
    { <<"c","a","n","c","e","l">>,
      <<"t","h","i","s">>,
      <<"b","o","o","k","i","n","g">>,
      <<"h","i">>,
      <<"f","a","c","e","b","o","o","k">>,
      <<"l","o","c","a","t","i","o","n">>,
      <<"w","h","a","t">>,
      <<"s","e","r","v","i","c","e","s">> }

RECURSIVE JoinWords(_)
JoinWords(words) ==
    IF Len(words) = 1 THEN words[1]
    ELSE words[1] \o << " " >> \o JoinWords(Tail(words))

RouterMessages ==
    { JoinWords(words) : words \in UNION { [1..k -> RouterWords] : k \in 1..MaxWords } }

RouterInit ==
    /\ sessions = << >>
    /\ records = << >>
    /\ tasks = {}
    /\ now = StartTime
    /\ nmsgs = 0
    /\ sleeps = 0
    /\ last = NoDispatch
    /\ search = SearchIdle
    /\ routing \in { [ phase |-> "received", message |-> m, route |-> "none",
                       outcome |-> "none", cancellation_pending |-> FALSE,
                       user_data |-> << >> ] : m \in RouterMessages }

\* the router handles the message of a session that has just been created
RouteMessage ==
    /\ routing.phase = "received"
    /\ LET session == add_message(SessionData("s1", now), "user", 1, now)
           effect == _route_message_enhanced(routing.message, session, records, now,
                                             AllOk(CHOOSE u \in UserIds : TRUE))
       IN  routing' = [ phase |-> "routed", message |-> routing.message,
                        route |-> effect.route, outcome |-> effect.outcome,
                        cancellation_pending |-> effect.session.cancellation_pending,
                        user_data |-> effect.session.user_data ]
    /\ UNCHANGED << sessions, records, tasks, now, nmsgs, sleeps, last, search >>

RouterNext == RouteMessage

RouterSpec == RouterInit /\ [][RouterNext]_vars

\* C5: a message on which the cancellation predicate matches and which holds a
\* booking phrase is routed to Cancellation: the cancellation handler runs and
\* the session gets no booking draft.
C5_CancellationWins ==
    ( /\ routing.phase = "routed"
      /\ _is_cancellation_request(Strip(Lower(routing.message)))
      /\ HasBookingIndicator(Strip(Lower(routing.message))) )
    => /\ routing.route = "Cancellation"
       /\ routing.outcome \in {"ask_user_id", "not_found"}
       /\ routing.user_data = << >>

\* C6: the router selects the first rule that matches in the order Cancellation,
\* SocialMediaRequest, ContactRequest, ServiceBooking, ServiceInquiry,
\* PrivacyInquiry (for which the router has no predicate), Greeting, and
\* CompanyInfo exactly when none matches.  Messages that the basic-information
\* shortcut answers, a branch the order does not list, are left aside.
C6_FirstMatchingRule ==
    (routing.phase = "routed" /\ routing.route # "BasicInfo") =>
        LET m == Strip(Lower(routing.message))
        IN  routing.route =
                IF _is_cancellation_request(m) THEN "Cancellation"
                ELSE IF _is_social_media_request(m) THEN "SocialMediaRequest"
                ELSE IF _is_contact_request(m) THEN "ContactRequest"
                ELSE IF _is_service_booking_request(m) THEN "ServiceBooking"
                ELSE IF _is_service_inquiry(m) THEN "ServiceInquiry"
                ELSE IF _is_simple_greeting(m) THEN "Greeting"
                ELSE "CompanyInfo"

-------------------------------------------------------------------------------
(* Knowledge search with web-search fallback (vectordb_service.py).  Scores   *)
(* are in hundredths.  A result is a record of its content, its score and the *)
(* page_type of its metadata.                                                 *)

MIN_SEARCH_SCORE == 60

GOOD_RESULT_THRESHOLD == 75

EXCELLENT_RESULT_THRESHOLD == 85

\* the first k elements of seq: seq[:k]
Take(seq, k) == SubSeq(seq, 1, IF Len(seq) < k THEN Len(seq) ELSE k)

\* sum(1 for r in results if r.score >= threshold)
CountAtLeast(results, threshold) ==
    Cardinality({i \in 1..Len(results) : results[i].score >= threshold})

\* _search_namespace: the index answers with its top_k best matches, best
\* first; those at or above min_score become results
_search_namespace(matches, top_k, min_score) ==
    LET AboveFloor(match) == match.score >= min_score
    IN  SelectSeq(Take(matches, top_k), AboveFloor)

\* search_adeona_knowledge with include_serpapi=False; local_ok is FALSE when
\* the embedding or the index call raises, which the function answers with []
search_adeona_knowledge(matches, local_ok, top_k) ==
    LET local_results == _search_namespace(matches, top_k * 2, MIN_SEARCH_SCORE)
        IsExcellent(r) == r.score >= EXCELLENT_RESULT_THRESHOLD
        IsGood(r) == r.score >= GOOD_RESULT_THRESHOLD
        IsDecent(r) == r.score >= MIN_SEARCH_SCORE
        excellent_results == SelectSeq(local_results, IsExcellent)
        good_results == SelectSeq(local_results, IsGood)
        decent_results == SelectSeq(local_results, IsDecent)
    IN  IF ~local_ok THEN << >>
        ELSE IF excellent_results # << >> THEN Take(excellent_results, top_k)
        ELSE IF good_results # << >> THEN Take(good_results, top_k)
        ELSE Take(decent_results, top_k)

fallback_service_words ==
    << <<"s","e","r","v","i","c","e">>, <<"s","e","r","v","i","c","e","s">>, <<"w","h","a","t"," ","d","o">>, <<"w","h","a","t"," ","a","r","e">> >>

\* a fallback decision that asks for the fallback only to add to local results
_should_use_serpapi_fallback_to_add(local_results, query) ==
    /\ local_results # << >>
    /\ \A i \in 1..Len(local_results) : local_results[i].score < GOOD_RESULT_THRESHOLD

\* _should_use_serpapi_fallback
_should_use_serpapi_fallback(local_results, query) ==
    LET high_quality_count == CountAtLeast(local_results, 85)
        moderate_quality_count == CountAtLeast(local_results, 75)
        query_lower == Lower(query)
    IN  IF local_results = << >> THEN TRUE
        ELSE IF high_quality_count >= 2 THEN FALSE
        ELSE IF moderate_quality_count >= 3 THEN FALSE
        ELSE IF ContainsAny(query_lower, fallback_service_words) /\ Len(local_results) < 3
            THEN TRUE
        ELSE IF \A i \in 1..Len(local_results) : local_results[i].score < 70 THEN TRUE
        ELSE FALSE

\* serpapi_service.search_adeona_specific(query, max_results): the hits of the
\* web-search provider, each with a snippet and a relevance_score (in tenths),
\* at most max_results of them
search_adeona_specific(provider, max_results) == Take(provider.hits, max_results)

\* _search_serpapi_fallback: hit number i (from 0) gets
\* min(0.75 - i * 0.05 + relevance_score * 0.1, 0.85); a call that raises gives []
_search_serpapi_fallback(provider) ==
    LET serpapi_results == search_adeona_specific(provider, 5)
        base_score(i) == 75 - (i - 1) * 5
        final_score(i) ==
            IF base_score(i) + serpapi_results[i].relevance_score < 85
                THEN base_score(i) + serpapi_results[i].relevance_score
            ELSE 85
    IN  IF provider.error THEN << >>
        ELSE [ i \in 1..Len(serpapi_results) |->
                 [ content |-> serpapi_results[i].snippet, score |-> final_score(i),
                   page_type |-> "serpapi_fallback" ] ]

\* list.sort(key=score, reverse=True): a stable sort, highest score first
RECURSIVE InsertByScore(_, _)
InsertByScore(sorted, r) ==
    IF sorted = << >> THEN << r >>
    ELSE IF sorted[Len(sorted)].score >= r.score THEN Append(sorted, r)
    ELSE Append(InsertByScore(SubSeq(sorted, 1, Len(sorted) - 1), r), sorted[Len(sorted)])

RECURSIVE SortByScore(_)
SortByScore(results) ==
    IF results = << >> THEN << >>
    ELSE InsertByScore(SortByScore(SubSeq(results, 1, Len(results) - 1)),
                       results[Len(results)])

\* content[:100].lower().replace(' ', '').replace('\n', '')
content_key(content) ==
    LET Kept(c) == c \notin { " ", "\n" }
    IN  SelectSeq(Lower(Take(content, 100)), Kept)

\* a removal of duplicates that keeps the last result of every content key
RECURSIVE _remove_duplicate_results_keep_last(_)
_remove_duplicate_results_keep_last(results) ==
    IF results = << >> THEN << >>
    ELSE LET later == Tail(results)
             result == Head(results)
         IN  IF \E i \in 1..Len(later) :
                    content_key(later[i].content) = content_key(result.content)
                 THEN _remove_duplicate_results_keep_last(later)
             ELSE << result >> \o _remove_duplicate_results_keep_last(later)

\* _remove_duplicate_results: the first result of every content key is kept
RECURSIVE _remove_duplicate_results(_)
_remove_duplicate_results(results) ==
    IF results = << >> THEN << >>
    ELSE LET earlier == SubSeq(results, 1, Len(results) - 1)
             result == results[Len(results)]
         IN  IF \E i \in 1..Len(earlier) :
                    content_key(earlier[i].content) = content_key(result.content)
                 THEN _remove_duplicate_results(earlier)
             ELSE Append(_remove_duplicate_results(earlier), result)

\* a merge that keeps the local results only
_combine_search_results_local_only(local_results, serpapi_results) ==
    _remove_duplicate_results(SortByScore(local_results))

\* a combination that puts the fallback results before the local ones
_combine_search_results_fallback_first(local_results, serpapi_results) ==
    LET boosted_local ==
            [ i \in 1..Len(local_results) |->
                [ local_results[i] EXCEPT
                    !.score = IF @ + 10 < 100 THEN @ + 10 ELSE 100 ] ]
    IN  _remove_duplicate_results(SortByScore(serpapi_results \o boosted_local))

\* _combine_search_results
_combine_search_results(local_results, serpapi_results) ==
    LET boosted_local ==
            [ i \in 1..Len(local_results) |->
                [ local_results[i] EXCEPT
                    !.score = IF @ + 10 < 100 THEN @ + 10 ELSE 100 ] ]
    IN  _remove_duplicate_results(SortByScore(boosted_local \o serpapi_results))

\* a search that returns the whole merged list
search_with_fallback_uncut(query, matches, local_ok, provider, top_k) ==
    LET local_results == search_adeona_knowledge(matches, local_ok, top_k)
        serpapi_results == _search_serpapi_fallback(provider)
        combined_results == _combine_search_results(local_results, serpapi_results)
    IN  IF ~_should_use_serpapi_fallback(local_results, query)
            THEN [ results |-> local_results, used_fallback |-> FALSE,
                   local_results |-> local_results, serpapi_results |-> << >>,
                   combined_results |-> << >> ]
        ELSE [ results |-> combined_results, used_fallback |-> TRUE,
               local_results |-> local_results, serpapi_results |-> serpapi_results,
               combined_results |-> combined_results ]

\* a search in which a failure of either source ends the whole search, as the
\* outer handler of search_with_fallback would end it
search_with_fallback_aborting(query, matches, local_ok, provider, top_k) ==
    LET local_results == search_adeona_knowledge(matches, local_ok, top_k)
        needs_fallback == _should_use_serpapi_fallback(local_results, query)
        serpapi_results == _search_serpapi_fallback(provider)
        combined_results == _combine_search_results(local_results, serpapi_results)
        aborted == [ results |-> << >>, used_fallback |-> FALSE,
                     local_results |-> << >>, serpapi_results |-> << >>,
                     combined_results |-> << >> ]
    IN  IF ~local_ok THEN aborted
        ELSE IF ~needs_fallback
            THEN [ results |-> local_results, used_fallback |-> FALSE,
                   local_results |-> local_results, serpapi_results |-> << >>,
                   combined_results |-> << >> ]
        ELSE IF provider.error THEN aborted
        ELSE [ results |-> Take(combined_results, top_k), used_fallback |-> TRUE,
               local_results |-> local_results, serpapi_results |-> serpapi_results,
               combined_results |-> combined_results ]

\* search_with_fallback
search_with_fallback(query, matches, local_ok, provider, top_k) ==
    LET local_results == search_adeona_knowledge(matches, local_ok, top_k)
        needs_fallback == _should_use_serpapi_fallback(local_results, query)
        serpapi_results == _search_serpapi_fallback(provider)
        combined_results == _combine_search_results(local_results, serpapi_results)
    IN  IF ~needs_fallback
            THEN [ results |-> local_results, used_fallback |-> FALSE,
                   local_results |-> local_results, serpapi_results |-> << >>,
                   combined_results |-> << >> ]
        ELSE [ results |-> Take(combined_results, top_k), used_fallback |-> TRUE,
               local_results |-> local_results, serpapi_results |-> serpapi_results,
               combined_results |-> combined_results ]

(* The inputs of one search.                                                  *)

\* matches the index holds for a query
MaxMatches == 3

\* hits the web-search provider returns
MaxHits == 2

ScoreLevels == { 55, 72, 75, 85, 90 }

\* a text of 100 characters, as long as the prefix content_key compares
LongPrefix == [ i \in 1..100 |-> "x" ]

\* contents of indexed chunks: a short one, and one longer than the prefix
Contents == { <<"A"," ","b">>, LongPrefix \o <<"y">> }

\* snippets of hits: one that differs from the short content in case and spaces
\* only, and one that differs from the long content after the prefix only
Snippets == { <<"a","b">>, LongPrefix \o <<"z">> }

\* relevance_score values, in tenths
RelevanceScores == { 0, 10 }

SearchQueries == { <<"w","h","a","t"," ","s","e","r","v","i","c","e","s">>, <<"a","b","o","u","t"," ","a","d","e","o","n","a">> }

TopKs == { 1, 4 }

\* what the index holds, best match first
IndexMatches ==
    { matches \in UNION { [1..k -> [ content : Contents, score : ScoreLevels,
                                      page_type : {"local"} ]] : k \in 0..MaxMatches } :
        \A i \in 1..(Len(matches) - 1) : matches[i].score >= matches[i + 1].score }

\* what the provider answers: an error, or up to MaxHits hits
Providers ==
    { [ error |-> TRUE, hits |-> << >> ] }
    \cup { [ error |-> FALSE, hits |-> hits ] :
             hits \in UNION { [1..k -> [ snippet : Snippets,
                                         relevance_score : RelevanceScores ]] :
                              k \in 0..MaxHits } }

SearchInit ==
    /\ sessions = << >>
    /\ records = << >>
    /\ tasks = {}
    /\ now = StartTime
    /\ nmsgs = 0
    /\ sleeps = 0
    /\ last = NoDispatch
    /\ routing = RoutingIdle
    /\ search \in [ phase : {"asked"}, query : SearchQueries, matches : IndexMatches,
                    local_ok : BOOLEAN, provider : Providers, top_k : TopKs ]

\* one call of search_with_fallback
Search ==
    /\ search.phase = "asked"
    /\ search' = [ phase |-> "done", query |-> search.query, matches |-> search.matches,
                   local_ok |-> search.local_ok, provider |-> search.provider,
                   top_k |-> search.top_k,
                   answer |-> search_with_fallback(search.query, search.matches,
                                                   search.local_ok, search.provider,
                                                   search.top_k) ]
    /\ UNCHANGED << sessions, records, tasks, now, nmsgs, sleeps, last, routing >>

SearchNext == Search

SearchSpec == SearchInit /\ [][SearchNext]_vars

\* C7: the fallback is not used when the local index returns, at or above the
\* score floor, at least two matches scored 0.85 or more, or at least three
\* scored 0.75 or more, whatever the query.  Stated for a top_k that does not cut
\* the matches short.
C7_NoFallbackOnGoodLocal ==
    ( /\ search.phase = "done"
      /\ search.local_ok
      /\ Len(search.matches) <= search.top_k
      /\ LET returned == _search_namespace(search.matches, search.top_k * 2,
                                           MIN_SEARCH_SCORE)
         IN  CountAtLeast(returned, 85) >= 2 \/ CountAtLeast(returned, 75) >= 3 )
    => ~search.answer.used_fallback

\* C8: when the local results hold neither two results scored 0.85 or more nor
\* three scored 0.75 or more, and every local result is scored below 0.75, the
\* fallback is used.
C8_FallbackBelowGood ==
    ( /\ search.phase = "done"
      /\ CountAtLeast(search.answer.local_results, 85) < 2
      /\ CountAtLeast(search.answer.local_results, 75) < 3
      /\ \A i \in 1..Len(search.answer.local_results) :
            search.answer.local_results[i].score < 75 )
    => search.answer.used_fallback

\* C9: every chunk made from a web-search hit is scored strictly below 0.85.
C9_FallbackScoreBelowExcellent ==
    search.phase = "done" =>
        \A i \in 1..Len(search.answer.serpapi_results) :
            search.answer.serpapi_results[i].score < EXCELLENT_RESULT_THRESHOLD

-------------------------------------------------------------------------------
(* Properties of one message: the session before it (sessions) against the    *)
(* session after its handler (sessions').                                     *)

\* the booking draft of session sid in the session map ss (<< >> when none)
DraftOf(ss, sid) == IF sid \in DOMAIN ss THEN ss[sid].user_data ELSE << >>

\* the cancellation_pending flag of session sid in the session map ss
PendingOf(ss, sid) == IF sid \in DOMAIN ss THEN ss[sid].cancellation_pending ELSE FALSE

\* C11: when a record-store request fails while a message is processed, the
\* session's booking draft and cancellation_pending flag are the same after
\* the message as before it.
C11_FailureKeepsState ==
    [][ (last'.n # last.n /\ last'.failed) =>
          /\ DraftOf(sessions', last'.sid) = DraftOf(sessions, last'.sid)
          /\ PendingOf(sessions', last'.sid) = PendingOf(sessions, last'.sid) ]_vars

\* a record-creation call failed at step confirmation
C11_Witness ==
    /\ last.failed
    /\ last.outcome = "create_failed"

\* C12: after a message from which an identifier was extracted has been handled
\* by the cancellation flow (from the router or from identifier capture), the
\* session's cancellation_pending flag is false whatever the outcome, and an
\* outcome of not found leaves the record store as it was.
C12_IdentifierClearsPending ==
    [][ (last'.n # last.n /\ last'.user_id # NoId) =>
          /\ ~PendingOf(sessions', last'.sid)
          /\ last'.outcome \in { "success", "delete_failed", "not_found", "inactive",
                                 "time_exceeded" }
          /\ (last'.outcome = "not_found" => records' = records) ]_vars

\* an identifier was given while the flag was set, and the deletion failed
C12_Witness ==
    /\ last.pending_before
    /\ last.user_id # NoId
    /\ last.outcome = "delete_failed"
    /\ ~sessions[last.sid].cancellation_pending

\* C13: while cancellation_pending is set, a message from which no identifier
\* can be extracted is handled by identifier capture alone: the flag stays set,
\* the booking draft and the record store are not touched and no request is
\* made.  The flag therefore stays set for as long as only such messages come.
C13_PendingUntilIdentifier ==
    [][ ( /\ last'.n # last.n
          /\ PendingOf(sessions, last'.sid)
          /\ last'.user_id = NoId ) =>
          /\ PendingOf(sessions', last'.sid)
          /\ last'.handler = "identifier_capture"
          /\ last'.route = "none"
          /\ last'.outcome = "invalid_format"
          /\ last'.requests = << >>
          /\ DraftOf(sessions', last'.sid) = DraftOf(sessions, last'.sid)
          /\ records' = records ]_vars

\* three messages in a row without an identifier, and the flag is still set
C13_Witness ==
    /\ last.n >= 4
    /\ last.pending_before
    /\ last.outcome = "invalid_format"
    /\ sessions[last.sid].cancellation_pending
    /\ Len(sessions[last.sid].conversation_history) >= 7

\* C14: when the router handles a cancellation request from which no identifier
\* can be extracted, cancellation_pending becomes true and no request is made
\* to the record store; when an identifier is extracted, eligibility is
\* evaluated in the same message (the lookup request is made and the outcome is
\* one of the cancellation outcomes) and cancellation_pending is false afterwards.
C14_RouterCancellation ==
    [][ ( /\ last'.n # last.n
          /\ last'.handler = "router"
          /\ last'.route = "Cancellation" ) =>
          IF last'.user_id = NoId
              THEN /\ PendingOf(sessions', last'.sid)
                   /\ last'.outcome = "ask_user_id"
                   /\ last'.requests = << >>
                   /\ records' = records
          ELSE /\ ~PendingOf(sessions', last'.sid)
               /\ last'.requests # << >>
               /\ last'.requests[1] = "GET"
               /\ last'.outcome \in { "success", "delete_failed", "not_found",
                                      "inactive", "time_exceeded" } ]_vars

\* the router handled a cancellation request that carried an identifier, and
\* the record was deleted in the same message
C14_Witness ==
    /\ last.handler = "router"
    /\ last.route = "Cancellation"
    /\ last.user_id = msg_id
    /\ last.outcome = "success"
    /\ ~sessions[last.sid].cancellation_pending

\* the router handled a cancellation request without an identifier
C14_WitnessNoIdentifier ==
    /\ last.handler = "router"
    /\ last.route = "Cancellation"
    /\ last.user_id = NoId
    /\ sessions[last.sid].cancellation_pending

\* C15: a confirm command at step confirmation whose record-creation call
\* succeeds ends with the session's booking draft cleared and exactly one
\* record added, which holds the five fields of the draft, and the response
\* shows that record's identifier of eight alphanumeric characters.  Together
\* with C3 and C19 this is the end of every run of five valid inputs from step
\* name followed by confirm.
C15_ValidBookingCompletes ==
    [][ ( /\ last'.n # last.n
          /\ last'.handler = "booking"
          /\ last'.step_before = "confirmation"
          /\ last'.command = "confirm"
          /\ ~last'.failed ) =>
          LET draft == DraftOf(sessions, last'.sid)[1]
              record == records'[Len(records')]
          IN  /\ last'.outcome = "booked"
              /\ DraftOf(sessions', last'.sid) = << >>
              /\ Len(records') = Len(records) + 1
              /\ SubSeq(records', 1, Len(records)) = records
              /\ record.UserID = last'.created
              /\ Len(last'.created) = USER_ID_LENGTH
              /\ IsAlnumStr(last'.created)
              /\ record.Name = draft.name
              /\ record.Email = Lower(draft.email)
              /\ record.Phone = draft.phone
              /\ record.Address = draft.address
              /\ record.Services_details = draft.service_details
              /\ record.Status = "active" ]_vars

\* the booking request, five valid inputs and confirm: seven messages, the
\* record created and the draft cleared
C15_Witness ==
    /\ last.n = 7
    /\ last.outcome = "booked"
    /\ last.created # NoId
    /\ sessions[last.sid].user_data = << >>
    /\ \E i \in 1..Len(records) : records[i].UserID = last.created

\* the field steps of a booking draft
FieldSteps == { "name", "email", "phone", "address", "service_details" }

\* C16: an input that fails the validator of the field step the draft is at,
\* and at step confirmation an input that is neither a confirm command nor an
\* edit command, leaves the draft's step and five fields as they were and makes
\* no request to the record store.
C16_InvalidInputKeepsDraft ==
    [][ ( /\ last'.n # last.n
          /\ last'.handler = "booking"
          /\ \/ last'.step_before \in FieldSteps /\ ~last'.valid
             \/ last'.step_before = "confirmation" /\ last'.command = "other" ) =>
          /\ DraftOf(sessions', last'.sid) = DraftOf(sessions, last'.sid)
          /\ last'.requests = << >>
          /\ records' = records ]_vars

\* an input without ten digits was given at step phone
C16_Witness ==
    /\ last.handler = "booking"
    /\ last.step_before = "phone"
    /\ ~last.valid
    /\ sessions[last.sid].user_data # << >>
    /\ sessions[last.sid].user_data[1].step = "phone"

\* an input that is no command was given at step confirmation
C16_WitnessConfirmation ==
    /\ last.handler = "booking"
    /\ last.step_before = "confirmation"
    /\ last.command = "other"

\* inputs that are an edit command once trimmed and lowercased
EditInputs ==
    { <<"e","d","i","t">>, <<"n","o">>, <<"c","h","a","n","g","e">>,
      <<" ","E","d","i","t"," ">>, <<"N","O">>, <<"C","h","a","n","g","e"," ">> }

\* C17: 'edit', 'no' and 'change', trimmed and in any case, are the edit
\* command, and the edit command at step confirmation sets the step to name
\* and the five fields to None, keeps the draft in the session and makes no
\* request to the record store.
C17_EditResetsDraft ==
    /\ \A m \in EditInputs : confirmation_command(m) = "edit"
    /\ [][ ( /\ last'.n # last.n
             /\ last'.handler = "booking"
             /\ last'.step_before = "confirmation"
             /\ last'.command = "edit" ) =>
             /\ DraftOf(sessions', last'.sid) = << ServiceRequest >>
             /\ ~PendingOf(sessions', last'.sid)
             /\ last'.requests = << >>
             /\ records' = records ]_vars

\* edit was given at step confirmation
C17_Witness ==
    /\ last.handler = "booking"
    /\ last.step_before = "confirmation"
    /\ last.command = "edit"
    /\ sessions[last.sid].user_data # << >>
    /\ sessions[last.sid].user_data[1].step = "name"

\* C18: a confirm command at step confirmation always issues a record-creation
\* call; when the call fails, the draft stays in the session at step
\* confirmation with its five fields unchanged and no record is stored, so a
\* later confirm command issues a new creation call.
C18_FailedCreationKeepsDraft ==
    [][ ( /\ last'.n # last.n
          /\ last'.handler = "booking"
          /\ last'.step_before = "confirmation"
          /\ last'.command = "confirm" ) =>
          /\ last'.requests = << "POST" >>
          /\ last'.failed =>
                /\ last'.outcome = "create_failed"
                /\ DraftOf(sessions', last'.sid) = DraftOf(sessions, last'.sid)
                /\ DraftOf(sessions', last'.sid)[1].step = "confirmation"
                /\ records' = records ]_vars

\* a confirm command whose creation call failed is followed by a confirm
\* command whose creation call stores the record
C18_Witness ==
    \E task \in tasks :
        /\ task.requests = << "POST" >>
        /\ task.created = NoId
        /\ last.sid = task.sid
        /\ last.n = task.n + 1
        /\ last.step_before = "confirmation"
        /\ last.command = "confirm"
        /\ last.requests = << "POST" >>
        /\ last.outcome = "booked"

\* the position of a step in service_booking_steps
StepPosition(step) ==
    CHOOSE k \in 1..Len(service_booking_steps) : service_booking_steps[k] = step

\* C19: in every step of the program a session's booking draft either keeps
\* its step, advances to the immediately next step of name, email, phone,
\* address, service_details, confirmation, is completed and cleared from step
\* confirmation, or is reset from confirmation to name; a new draft starts at
\* step name.
C19_StepsAdvanceByOne ==
    [][ \A sid \in DOMAIN sessions' :
          LET before == DraftOf(sessions, sid)
              after == DraftOf(sessions', sid)
          IN  IF before = << >> THEN after = << >> \/ after = << ServiceRequest >>
              ELSE IF after = << >> THEN before[1].step = "confirmation"
              ELSE \/ after[1].step = before[1].step
                   \/ StepPosition(after[1].step) = StepPosition(before[1].step) + 1
                   \/ before[1].step = "confirmation" /\ after[1].step = "name" ]_vars

\* the draft went from step service_details to step confirmation
C19_Witness ==
    /\ last.handler = "booking"
    /\ last.step_before = "service_details"
    /\ sessions[last.sid].user_data # << >>
    /\ sessions[last.sid].user_data[1].step = "confirmation"

-------------------------------------------------------------------------------
(* Further properties of the knowledge search.                                *)

\* C20: when the local search yields no result, because the embedding or the
\* index call failed or because the index holds no match at or above the score
\* floor, search_with_fallback runs the fallback and answers used_fallback =
\* TRUE; when the fallback yields nothing either, the results are empty.
C20_FallbackOnNoLocalResults ==
    ( /\ search.phase = "done"
      /\ \/ ~search.local_ok
         \/ \A i \in 1..Len(search.matches) : search.matches[i].score < MIN_SEARCH_SCORE )
    => /\ search.answer.used_fallback
       /\ search.answer.local_results = << >>
       /\ search.answer.serpapi_results = << >> => search.answer.results = << >>
       /\ search.answer.serpapi_results # << >> => search.answer.results # << >>

\* the index call failed although the index holds matches, and the fallback
\* yielded nothing
C20_Witness ==
    /\ search.phase = "done"
    /\ ~search.local_ok
    /\ search.matches # << >>
    /\ search.provider.error
    /\ search.answer.used_fallback
    /\ search.answer.results = << >>

\* the index holds no match at or above the floor and the fallback yielded hits
C20_WitnessHits ==
    /\ search.phase = "done"
    /\ search.local_ok
    /\ search.matches # << >>
    /\ search.answer.local_results = << >>
    /\ search.answer.serpapi_results # << >>
    /\ search.answer.used_fallback

MergeCandidates ==
    { [ search.answer.local_results[i] EXCEPT
          !.score = IF @ + 10 < 100 THEN @ + 10 ELSE 100 ] :
        i \in 1..Len(search.answer.local_results) }
    \cup { search.answer.serpapi_results[i] : i \in 1..Len(search.answer.serpapi_results) }

\* C22: in the merged result of local and fallback chunks every entry is a
\* candidate, and the candidates of one fingerprint (first 100 characters,
\* lower-cased, spaces and newlines removed) are represented by exactly one
\* entry, which carries the highest score among them, local scores counted
\* after the boost of 0.1.
C22_DuplicatesCollapseToHighest ==
    (search.phase = "done" /\ search.answer.used_fallback) =>
        LET merged == search.answer.combined_results
        IN  /\ \A j \in 1..Len(merged) : merged[j] \in MergeCandidates
            /\ \A c \in MergeCandidates :
                 /\ Cardinality({ j \in 1..Len(merged) :
                        content_key(merged[j].content) = content_key(c.content) }) = 1
                 /\ \A j \in 1..Len(merged) :
                        content_key(merged[j].content) = content_key(c.content)
                            => merged[j].score >= c.score

\* a hit whose snippet differs from a local content only in case and spaces
\* outscores it after the boost and is the one kept, and a hit whose snippet
\* differs from a local content only after the 100th character is dropped
C22_Witness ==
    /\ search.phase = "done"
    /\ search.answer.used_fallback
    /\ \E i \in 1..Len(search.answer.local_results) :
       \E h \in 1..Len(search.answer.serpapi_results) :
         /\ search.answer.local_results[i].content # search.answer.serpapi_results[h].content
         /\ Len(search.answer.local_results[i].content) < 100
         /\ content_key(search.answer.local_results[i].content)
              = content_key(search.answer.serpapi_results[h].content)
         /\ search.answer.local_results[i].score + 10 < search.answer.serpapi_results[h].score
         /\ \E j \in 1..Len(search.answer.combined_results) :
              search.answer.combined_results[j] = search.answer.serpapi_results[h]
    /\ \E i \in 1..Len(search.answer.local_results) :
       \E h \in 1..Len(search.answer.serpapi_results) :
         /\ search.answer.local_results[i].content # search.answer.serpapi_results[h].content
         /\ Len(search.answer.local_results[i].content) > 100
         /\ content_key(search.answer.local_results[i].content)
              = content_key(search.answer.serpapi_results[h].content)
         /\ \A j \in 1..Len(search.answer.combined_results) :
              search.answer.combined_results[j] # search.answer.serpapi_results[h]

\* C23: when the fallback is used, the returned results are in non-increasing
\* score order and are at most top_k; they are merge candidates of pairwise
\* different fingerprints, each the highest-scored of its fingerprint, and a
\* fingerprint is left out only when top_k results are returned and none of
\* them is scored below the candidates of that fingerprint.
C23_TopKOfMerged ==
    (search.phase = "done" /\ search.answer.used_fallback) =>
        LET results == search.answer.results
            Represented(c) ==
                \E j \in 1..Len(results) :
                    content_key(results[j].content) = content_key(c.content)
        IN  /\ Len(results) <= search.top_k
            /\ \A i \in 1..Len(results) : \A j \in (i + 1)..Len(results) :
                 /\ results[i].score >= results[j].score
                 /\ content_key(results[i].content) # content_key(results[j].content)
            /\ \A j \in 1..Len(results) :
                 /\ results[j] \in MergeCandidates
                 /\ \A c \in MergeCandidates :
                        content_key(c.content) = content_key(results[j].content)
                            => results[j].score >= c.score
            /\ \A c \in MergeCandidates :
                 ~Represented(c) =>
                    /\ Len(results) = search.top_k
                    /\ \A j \in 1..Len(results) : results[j].score >= c.score

\* the merged list holds more than top_k entries and is cut
C23_Witness ==
    /\ search.phase = "done"
    /\ search.answer.used_fallback
    /\ Len(search.answer.combined_results) > search.top_k
    /\ Len(search.answer.results) = search.top_k

\* local and fallback chunks are both returned, in score order
C23_WitnessMixed ==
    /\ search.phase = "done"
    /\ search.answer.used_fallback
    /\ Len(search.answer.results) = 2
    /\ search.answer.results[1].page_type = "serpapi_fallback"
    /\ search.answer.results[2].page_type = "local"
    /\ search.answer.results[1].score > search.answer.results[2].score

\* C24: a failure of one source does not end the search.  When the embedding
\* or the index call fails, the fallback is still run and its chunks are
\* returned; when the fallback is needed and its search fails, every local
\* result is still returned, with its boosted score, one entry for every
\* fingerprint, and nothing else is returned.
C24_PartialFailureIsolated ==
    /\ (search.phase = "done" /\ ~search.local_ok) =>
          /\ search.answer.used_fallback
          /\ ~search.provider.error =>
                /\ Len(search.answer.serpapi_results) = Len(search.provider.hits)
                /\ search.provider.hits # << >> => search.answer.results # << >>
    /\ ( /\ search.phase = "done"
         /\ search.local_ok
         /\ _should_use_serpapi_fallback(
                search_adeona_knowledge(search.matches, TRUE, search.top_k), search.query)
         /\ search.provider.error ) =>
          LET local_results == search_adeona_knowledge(search.matches, TRUE, search.top_k)
              results == search.answer.results
          IN  /\ search.answer.used_fallback
              /\ \A i \in 1..Len(local_results) :
                    \E j \in 1..Len(results) :
                        /\ content_key(results[j].content)
                             = content_key(local_results[i].content)
                        /\ results[j].page_type = "local"
                        /\ results[j].score >= local_results[i].score
              /\ \A j \in 1..Len(results) :
                    \E i \in 1..Len(local_results) :
                        /\ results[j].content = local_results[i].content
                        /\ results[j].score =
                             IF local_results[i].score + 10 < 100
                                 THEN local_results[i].score + 10 ELSE 100

\* the fallback search fails and the local results come back
C24_Witness ==
    /\ search.phase = "done"
    /\ search.local_ok
    /\ search.provider.error
    /\ search.answer.used_fallback
    /\ search.answer.local_results # << >>
    /\ Len(search.answer.results) = 2

\* the local search fails and the chunks of the hits come back
C24_WitnessLocalFailure ==
    /\ search.phase = "done"
    /\ ~search.local_ok
    /\ search.matches # << >>
    /\ ~search.provider.error
    /\ search.answer.results # << >>

-------------------------------------------------------------------------------
(* Further properties of the record store.                                    *)

\* C25: no two records of the table carry the same UserID, and a message
\* leaves every record it does not delete as it was, the UserID included, the
\* only new record being the one a booking commit appends.
C25_UserIdUniqueAndImmutable ==
    /\ [](\A i \in 1..Len(records) : \A j \in 1..Len(records) :
            records[i].UserID = records[j].UserID => i = j)
    /\ [][ \A j \in 1..Len(records') :
             \/ \E i \in 1..Len(records) : records'[j] = records[i]
             \/ /\ j = Len(records')
                /\ last'.outcome = "booked"
                /\ records'[j].UserID = last'.created ]_vars

\* a booking is committed while the table holds the record of an earlier one
C25_Witness ==
    /\ last.outcome = "booked"
    /\ Len(records) = 2
    /\ records[2].UserID = last.created
    /\ records[1].UserID = records[2].UserID

-------------------------------------------------------------------------------
(* Properties of the session map.                                             *)

\* C26: cleanup_old_sessions(hours) removes exactly the sessions whose
\* last_activity is earlier than now minus hours and leaves every other session
\* as it was, history, draft and pending flag included; a message for a session
\* id that the map does not hold, an evicted one included, is handled by the
\* router on a new session whose history starts with that message, with no
\* draft and no pending flag before it.
C26_CleanupEvictsIdleSessions ==
    /\ [][ (last'.handler = "cleanup" /\ now' = now /\ tasks' = tasks) =>
             /\ DOMAIN sessions' \subseteq DOMAIN sessions
             /\ \A sid \in DOMAIN sessions :
                  IF sessions[sid].last_activity < now - last'.hours * SECONDS_PER_HOUR
                      THEN sid \notin DOMAIN sessions'
                  ELSE sid \in DOMAIN sessions' /\ sessions'[sid] = sessions[sid] ]_vars
    /\ [][ (last'.n # last.n /\ last'.sid \notin DOMAIN sessions) =>
             /\ last'.sid \in DOMAIN sessions'
             /\ sessions'[last'.sid].conversation_history[1] = [role |-> "user", n |-> last'.n]
             /\ \A i \in 1..Len(sessions'[last'.sid].conversation_history) :
                    sessions'[last'.sid].conversation_history[i].n = last'.n
             /\ ~last'.pending_before
             /\ last'.step_before = "none"
             /\ last'.handler = "router" ]_vars

\* the sweep has removed session s1, which had a draft or a pending flag, and
\* has kept session s2, which was last active exactly at the cutoff or later
C26_Witness ==
    /\ last.handler = "cleanup"
    /\ "s1" \notin DOMAIN sessions
    /\ "s2" \in DOMAIN sessions
    /\ sessions["s2"].cancellation_pending
    /\ sessions["s2"].conversation_history[1].n = 2

\* the sweep at the boundary: a session last active exactly 24 hours ago is kept
C26_WitnessBoundary ==
    /\ last.handler = "cleanup"
    /\ last.hours = 24
    /\ "s1" \in DOMAIN sessions
    /\ sessions["s1"].last_activity = now - last.hours * SECONDS_PER_HOUR
    /\ sessions["s1"].user_data # << >>

\* a session was evicted and the next message for its id started a new
\* session: of the first two messages one was for each session, and the
\* histories now start at messages 2 and 3
C26_WitnessFresh ==
    /\ "s1" \in DOMAIN sessions
    /\ "s2" \in DOMAIN sessions
    /\ sessions["s2"].conversation_history[1].n = 2
    /\ sessions["s1"].conversation_history[1].n = 3
    /\ last.sid = "s1"
    /\ last.n = 3
    /\ last.handler = "router"

\* C27: with a client that waits for each reply, the first message creates the
\* session, and after n messages the history holds 2n entries: entry 2k - 1 is
\* the user's text of message k and entry 2k the assistant's response to it.
\* While message n is being processed its user entry is the last one.  Entry i
\* is therefore the same in every later state.
C27_HistoryGrowsByTwo ==
    /\ nmsgs = 0 => sessions = << >>
    /\ nmsgs > 0 =>
         /\ last.sid \in DOMAIN sessions
         /\ LET history == sessions[last.sid].conversation_history
            IN  /\ Len(history) = IF tasks = {} THEN 2 * nmsgs ELSE 2 * nmsgs - 1
                /\ \A i \in 1..Len(history) :
                      history[i] = [ role |-> IF i % 2 = 1 THEN "user" ELSE "assistant",
                                     n |-> (i + 1) \div 2 ]

\* seven messages have been answered
C27_Witness ==
    /\ nmsgs = MaxMessages
    /\ tasks = {}
    /\ Len(sessions[last.sid].conversation_history) = 2 * MaxMessages

\* C28: a message that the router sends to ServiceBooking leaves the session
\* with a new draft at step name whose five fields are None, and the next
\* message of that session is handled by the booking state machine as the name
\* input: a valid name is stored and the step becomes email, an invalid one
\* leaves the draft as it is.
C28_BookingStartsAtName ==
    /\ [][ (last'.n # last.n /\ last'.handler = "router" /\ last'.route = "ServiceBooking") =>
             DraftOf(sessions', last'.sid) =
                << [ step |-> "name", name |-> None, email |-> None, phone |-> None,
                     address |-> None, service_details |-> None ] >> ]_vars
    /\ [][ ( /\ last'.n # last.n
             /\ last.handler = "router"
             /\ last.route = "ServiceBooking"
             /\ last'.sid = last.sid ) =>
             /\ last'.handler = "booking"
             /\ last'.step_before = "name"
             /\ last'.route = "none"
             /\ IF last'.valid
                    THEN /\ DraftOf(sessions', last'.sid)[1].step = "email"
                         /\ DraftOf(sessions', last'.sid)[1].name # None
                         /\ DraftOf(sessions', last'.sid)[1].email = None
                ELSE DraftOf(sessions', last'.sid) = DraftOf(sessions, last'.sid) ]_vars

\* the message after the one that started the booking was taken as the name,
\* although the router would have sent it to ServiceBooking again
C28_Witness ==
    /\ last.n = 2
    /\ last.handler = "booking"
    /\ last.step_before = "name"
    /\ last.valid
    /\ RouteTable[msg_book] = "ServiceBooking"
    /\ sessions[last.sid].user_data # << >>
    /\ sessions[last.sid].user_data[1].name = Strip(msg_book)
    /\ sessions[last.sid].user_data[1].step = "email"

\* C29: after a booking commit whose create_customer_record call succeeded, a
\* lookup of the created record's UserID that can reach the table answers with
\* that record: its UserID, name, email, phone, address and service details,
\* and status active; a lookup of an identifier that no record carries answers
\* None.
C29_FindAfterCreate ==
    /\ last.outcome = "booked" =>
         LET created == records[Len(records)]
             found == find_customer_by_user_id(records, last.created, now, TRUE)
         IN  /\ created.UserID = last.created
             /\ found # << >>
             /\ found[1].user_id = created.UserID
             /\ found[1].name = created.Name
             /\ found[1].email = created.Email
             /\ found[1].phone = created.Phone
             /\ found[1].address = created.Address
             /\ found[1].service_details = created.Services_details
             /\ found[1].status = "active"
    /\ \A user_id \in UserIds :
         (\A i \in 1..Len(records) : records[i].UserID # user_id)
            => find_customer_by_user_id(records, user_id, now, TRUE) = << >>

\* a booking has been committed and its record is in the table
C29_Witness ==
    /\ last.outcome = "booked"
    /\ last.created # NoId
    /\ \E i \in 1..Len(records) :
         records[i].UserID = last.created /\ records[i].Status = "active"
    /\ \E user_id \in UserIds : \A i \in 1..Len(records) : records[i].UserID # user_id

\* the lookup answers with the created record in every table in which no other
\* record carries its UserID
C29_FindAfterCreateUnique ==
    ( /\ last.outcome = "booked"
      /\ \A i \in 1..(Len(records) - 1) : records[i].UserID # last.created ) =>
         LET created == records[Len(records)]
             found == find_customer_by_user_id(records, last.created, now, TRUE)
         IN  /\ found # << >>
             /\ found[1] = from_dict(created, now)
             /\ found[1].status = "active"

-------------------------------------------------------------------------------
(* Validation of customer data.                                               *)

\* field values around the limits of validate_customer_data
NameInputs == { << >>, <<" ">>, <<" ","a"," ">>, <<"a","b">> }

EmailInputs == { << >>, <<"a",".","b","@","c">>, <<"a","@","b",".","c">>, <<"a","@","b",".","c","@","d">>, <<"a","@","b","@","c",".","d">> }

PhoneInputs == { << >>, <<"0","7","7","1","2","3","4","5","6">>, <<"0","7","7","-","1","2","3","-","4","5","6","7">> }

AddressInputs == { << >>, <<" ","a","b","c","d"," ">>, <<"a","b","c","d","e">> }

DetailsInputs == { << >>, <<" ","a","b","c","d","e","f","g","h","i"," ">>, <<"a","b","c","d","e","f","g","h","i","j">> }

CustomerDataInputs ==
    [ name : NameInputs, email : EmailInputs, phone : PhoneInputs,
      address : AddressInputs, service_details : DetailsInputs ]

\* the customer data of a booking draft
DraftData(user_data) ==
    [ name |-> user_data.name, email |-> user_data.email, phone |-> user_data.phone,
      address |-> user_data.address, service_details |-> user_data.service_details ]

\* C30: validate_customer_data accepts customer data exactly when the five
\* fields are not empty, the email holds an '@' and a '.' after its last '@',
\* the phone holds at least 10 digits, and the trimmed name, address and
\* service details hold at least 2, 5 and 10 characters; and it accepts every
\* booking draft that is at step confirmation.
C30_ValidationMatchesSteps ==
    /\ \A data \in CustomerDataInputs :
          validate_customer_data(data) <=>
            /\ data.name # << >>
            /\ data.email # << >>
            /\ data.phone # << >>
            /\ data.address # << >>
            /\ data.service_details # << >>
            /\ \E i \in 1..Len(data.email) :
                  /\ data.email[i] = "@"
                  /\ \A j \in (i + 1)..Len(data.email) : data.email[j] # "@"
                  /\ \E j \in (i + 1)..Len(data.email) : data.email[j] = "."
            /\ Cardinality({ i \in 1..Len(data.phone) : data.phone[i] \in DigitChars }) >= 10
            /\ Len(Strip(data.name)) >= 2
            /\ Len(Strip(data.address)) >= 5
            /\ Len(Strip(data.service_details)) >= 10
    /\ [](\A sid \in DOMAIN sessions :
            ( /\ sessions[sid].user_data # << >>
              /\ sessions[sid].user_data[1].step = "confirmation" )
            => validate_customer_data(DraftData(sessions[sid].user_data[1])))

\* a draft has reached step confirmation through the five field steps
C30_Witness ==
    /\ last.handler = "booking"
    /\ last.step_before = "service_details"
    /\ last.valid
    /\ sessions[last.sid].user_data # << >>
    /\ sessions[last.sid].user_data[1].step = "confirmation"
    /\ validate_customer_data(DraftData(sessions[last.sid].user_data[1]))

-------------------------------------------------------------------------------
(* Deletion by the cancellation flow.                                         *)

\* C31: a cancellation sends a DELETE request only when the record its lookup
\* finds (the first with the identifier) is active and was created less than 24
\* hours before now, and a cancellation removes no record created 24 hours ago
\* or earlier, whether or not the stored date parses.
C31_DeleteOnlyFreshActive ==
    [][ (last'.n # last.n /\ last'.user_id # NoId) =>
          LET hits == {i \in 1..Len(records) : records[i].UserID = last'.user_id}
              requests == {last'.requests[k] : k \in 1..Len(last'.requests)}
          IN  /\ "DELETE" \in requests =>
                    /\ hits # {}
                    /\ records[SetMin(hits)].Status = "active"
                    /\ now - records[SetMin(hits)].Date
                           < CANCELLATION_HOURS * SECONDS_PER_HOUR
              /\ \A i \in 1..Len(records) :
                    now - records[i].Date >= CANCELLATION_HOURS * SECONDS_PER_HOUR
                        => \E j \in 1..Len(records') : records'[j] = records[i] ]_vars

\* a cancellation deleted a record (the table is empty afterwards)
C31_Witness ==
    /\ last.outcome = "success"
    /\ "DELETE" \in {last.requests[k] : k \in 1..Len(last.requests)}
    /\ records = << >>

-------------------------------------------------------------------------------
(* The not-found answer of a cancellation.                                    *)

\* C32: a cancellation is answered not found only when the table holds no
\* record with the identifier, and a cancellation whose lookup request failed is
\* not answered not found.
C32_NotFoundOnlyWhenAbsent ==
    [][ (last'.n # last.n /\ last'.user_id # NoId /\ last'.outcome = "not_found") =>
          /\ \A i \in 1..Len(records) : records[i].UserID # last'.user_id
          /\ ~last'.failed ]_vars

\* a cancellation whose lookup request failed was answered not found while the
\* table holds a record with the identifier
C32_Witness ==
    /\ last.outcome = "not_found"
    /\ last.failed
    /\ \E i \in 1..Len(records) : records[i].UserID = last.user_id

-------------------------------------------------------------------------------
(* Cancellation capture and booking drafts.                                   *)

\* C33: in every reachable state of sequentially processed messages, no session
\* has cancellation_pending true together with a booking draft.
C33_PendingExcludesDraft ==
    \A sid \in DOMAIN sessions :
        ~(sessions[sid].cancellation_pending /\ sessions[sid].user_data # << >>)

\* a session that had a draft is now waiting for an identifier
C33_Witness ==
    /\ last.handler = "router"
    /\ last.route = "Cancellation"
    /\ last.n > 1
    /\ \E sid \in DOMAIN sessions :
          /\ sessions[sid].cancellation_pending
          /\ sessions[sid].user_data = << >>
    /\ records # << >>

\* C34: a session's booking draft disappears only when a confirm message at step
\* confirmation created a record or when the session is evicted, and every message
\* of a session that has a draft goes to the booking handler and is not routed,
\* so that no second draft is started.
C34_DraftEndsAtCommitOrEviction ==
    [][ \A sid \in DOMAIN sessions :
          sessions[sid].user_data # << >> =>
            /\ DraftOf(sessions', sid) = << >> =>
                  \/ sid \notin DOMAIN sessions' /\ last'.handler = "cleanup"
                  \/ /\ last'.n # last.n
                     /\ last'.sid = sid
                     /\ last'.step_before = "confirmation"
                     /\ last'.command = "confirm"
                     /\ last'.created # NoId
                     /\ Len(records') = Len(records) + 1
            /\ (last'.n # last.n /\ last'.sid = sid) =>
                  /\ last'.handler = "booking"
                  /\ last'.route = "none"
                  /\ last'.step_before = sessions[sid].user_data[1].step ]_vars

\* a message the router classifies as a cancellation was taken as the name of
\* the draft
C34_Witness ==
    /\ last.handler = "booking"
    /\ last.step_before = "name"
    /\ \E sid \in DOMAIN sessions :
          /\ sessions[sid].user_data # << >>
          /\ sessions[sid].user_data[1].name = msg_cancel
          /\ ~sessions[sid].cancellation_pending

\* a confirm message created a record and the draft is gone
C34_WitnessCommit ==
    /\ last.handler = "booking"
    /\ last.created # NoId
    /\ \E sid \in DOMAIN sessions : sid = last.sid /\ sessions[sid].user_data = << >>

-------------------------------------------------------------------------------
(* The result list of search_with_fallback.                                   *)

\* C35: the results search_with_fallback returns never hold two chunks with the
\* same content key, with or without the fallback.
C35_ResultsHaveDistinctKeys ==
    search.phase = "done" =>
        \A i, j \in 1..Len(search.answer.results) :
            content_key(search.answer.results[i].content)
                = content_key(search.answer.results[j].content) => i = j

\* a search answered from the local index alone returned two chunks with the
\* same content key
C35_Witness ==
    /\ search.phase = "done"
    /\ ~search.answer.used_fallback
    /\ \E i, j \in 1..Len(search.answer.results) :
          /\ i # j
          /\ content_key(search.answer.results[i].content)
                = content_key(search.answer.results[j].content)

\* the results of a search that used the fallback hold no two chunks with the
\* same content key
C35_FallbackResultsHaveDistinctKeys ==
    (search.phase = "done" /\ search.answer.used_fallback) =>
        \A i, j \in 1..Len(search.answer.results) :
            content_key(search.answer.results[i].content)
                = content_key(search.answer.results[j].content) => i = j

\* C36: in the merged list of a search that used the fallback, every local
\* result whose raw score is 0.75 or more (boosted to 0.85 or more) stands before
\* every fallback result, also when the two scores are equal.
C36_GoodLocalAheadOfFallback ==
    (search.phase = "done" /\ search.answer.used_fallback) =>
        LET merged == search.answer.combined_results
            local_results == search.answer.local_results
            IsGoodLocal(r) ==
                /\ r.page_type = "local"
                /\ \E k \in 1..Len(local_results) :
                      /\ local_results[k].score >= 75
                      /\ local_results[k].content = r.content
                      /\ r.score = IF local_results[k].score + 10 < 100
                                       THEN local_results[k].score + 10 ELSE 100
        IN  \A i, j \in 1..Len(merged) :
                (IsGoodLocal(merged[i]) /\ merged[j].page_type = "serpapi_fallback")
                    => i < j

\* a local result of raw score 0.75 stands before a fallback result of the same
\* merged score 0.85
C36_Witness ==
    /\ search.phase = "done"
    /\ search.answer.used_fallback
    /\ \E k \in 1..Len(search.answer.local_results) :
          search.answer.local_results[k].score = 75
    /\ \E i, j \in 1..Len(search.answer.combined_results) :
          /\ i < j
          /\ search.answer.combined_results[i].page_type = "local"
          /\ search.answer.combined_results[i].score = 85
          /\ search.answer.combined_results[j].page_type = "serpapi_fallback"
          /\ search.answer.combined_results[j].score = 85

-------------------------------------------------------------------------------
(* Sessions are independent of each other.                                    *)

\* C37: a step of process_message for one session id (its start, or the
\* resumption of its suspended coroutine) leaves every other session as it was:
\* history, booking draft, cancellation_pending and last_activity.
C37_OtherSessionsUnchanged ==
    [][ LET Kept(sid) == sid \in DOMAIN sessions' /\ sessions'[sid] = sessions[sid]
        IN  /\ last'.n # last.n =>
                  \A sid \in DOMAIN sessions : sid # last'.sid => Kept(sid)
            /\ (last'.n = last.n /\ tasks' # tasks) =>
                  \E task \in tasks :
                      \A sid \in DOMAIN sessions : sid # task.sid => Kept(sid) ]_vars

\* a message of session s2 was processed while the coroutine of a message of
\* session s1 was suspended, and s1 holds a draft or waits for an identifier
C37_Witness ==
    /\ last.sid = "s2"
    /\ \E task \in tasks : task.sid = "s1"
    /\ "s1" \in DOMAIN sessions
    /\ "s2" \in DOMAIN sessions
    /\ sessions["s1"].user_data # << >> \/ sessions["s1"].cancellation_pending
    /\ Len(sessions["s2"].conversation_history) >= 2

-------------------------------------------------------------------------------
(* The identifier extractor.                                                  *)

\* C38: for a message that consists of a generated identifier, in upper or lower
\* case and with surrounding whitespace, _extract_user_id returns the identifier
\* in upper case, so that the lookup matches the record the booking stored under
\* it; and every value _extract_user_id returns is 8 characters, each an
\* upper-case letter or a digit.
C38_ExtractorRoundTripAndFormat ==
    routing.phase = "extracted" =>
        /\ \A user_id \in ExtractorIds :
              (\E left, right \in Pads : \E typed \in CaseVariants(user_id) :
                    routing.message = left \o typed \o right)
              => /\ routing.user_id = user_id
                 /\ Matching(<< ExistingRecord(user_id, now, "active") >>,
                             routing.user_id) = {1}
        /\ routing.user_id # NoId =>
              /\ Len(routing.user_id) = USER_ID_LENGTH
              /\ \A i \in 1..Len(routing.user_id) :
                    routing.user_id[i] \in UpperChars \cup DigitChars

\* the extractor returned a message of eight letters that have no case
C38_Witness ==
    /\ routing.phase = "extracted"
    /\ routing.user_id # NoId
    /\ \A i \in 1..Len(routing.user_id) : routing.user_id[i] = CaselessLetter

\* the first half of C38: the identifier typed in any case with surrounding
\* whitespace is returned in upper case
C38_RoundTrip ==
    routing.phase = "extracted" =>
        \A user_id \in ExtractorIds :
            (\E left, right \in Pads : \E typed \in CaseVariants(user_id) :
                  routing.message = left \o typed \o right)
            => routing.user_id = user_id

\* an identifier typed in lower case between spaces was returned in upper case
C38_WitnessRoundTrip ==
    /\ routing.phase = "extracted"
    /\ routing.message = << " " >> \o Lower(msg_id) \o << " ", " " >>
    /\ routing.user_id = msg_id
====
